---- MODULE Spec2Model ----
(***************************************************************************)
(* Zone record store of the DNS server (pkg/dns): AppendRecords,           *)
(* DeleteRecords and GetRecords over a certmagic.Storage that offers       *)
(* Lock/Unlock per key and Load/Store of whole blobs ("zonefiles"), and    *)
(* the DNS responder ServeDNS that answers queries from those zonefiles.   *)
(*                                                                         *)
(* Strings that the code takes apart (zone names, keys) are sequences of   *)
(* one-character strings; record fields are compared only, so they stay    *)
(* TLA+ strings.                                                           *)
(***************************************************************************)
EXTENDS Integers, Sequences, FiniteSets, TLC

VARIABLES storage, locks, pc, call, serve, db, hs, env, srv

\* The variables of the zone record store and the DNS responder, and those
\* of the hosts service and its database
zoneVars == <<storage, locks, pc, call, serve>>
otherVars == <<db, hs, env, srv>>

vars == <<storage, locks, pc, call, serve, db, hs, env, srv>>

\* ------------------------------------------------------------ bounds

\* Longest record list handed to AppendRecords / DeleteRecords.
MaxArgs == 2

\* Longest record list a call may leave in a zonefile (DeleteRecords can
\* lengthen a zonefile, so the length is capped where the call is made).
MaxRecs == 3

\* Concurrent callers of the concurrent specification.
NumProcs == 2

\* ------------------------------------------------------------ strings

SeqsUpTo(S, n) == UNION {[1..k -> S] : k \in 0..n}

Range(s) == {s[i] : i \in 1..Len(s)}

\* strings.HasSuffix
HasSuffix(s, suffix) ==
    /\ Len(s) >= Len(suffix)
    /\ SubSeq(s, Len(s) - Len(suffix) + 1, Len(s)) = suffix

\* strings.TrimSuffix: s without the suffix, if it ends with it
TrimSuffix(s, suffix) ==
    IF HasSuffix(s, suffix) THEN SubSeq(s, 1, Len(s) - Len(suffix)) ELSE s

\* strings.ToLower on the letters the model uses
LowerChar(c) ==
    CASE c = "A" -> "a"
      [] c = "B" -> "b"
      [] OTHER -> c

ToLower(s) == [i \in 1..Len(s) |-> LowerChar(s[i])]

\* dns.IsFqdn / dns.Fqdn (no escaped dots among the model's characters)
IsFqdn(s) == HasSuffix(s, <<".">>)

Fqdn(s) == IF IsFqdn(s) THEN s ELSE s \o <<".">>

\* dns.CanonicalName: strings.ToLower(Fqdn(s))
CanonicalName(s) == ToLower(Fqdn(s))

\* strings between the "/" of a path, the empty ones included
RECURSIVE SplitSlash(_, _, _)
SplitSlash(s, i, cur) ==
    IF i > Len(s) THEN <<cur>>
    ELSE IF s[i] = "/" THEN <<cur>> \o SplitSlash(s, i + 1, <<>>)
    ELSE SplitSlash(s, i + 1, Append(cur, s[i]))

\* path.Clean of a path that is not rooted, element by element: empty and
\* "." elements go, ".." takes the element before it away or stays when
\* there is none
RECURSIVE CleanElems(_, _, _)
CleanElems(elems, i, kept) ==
    IF i > Len(elems) THEN kept
    ELSE IF elems[i] = <<>> \/ elems[i] = <<".">>
         THEN CleanElems(elems, i + 1, kept)
    ELSE IF elems[i] = <<".", ".">> /\ kept # <<>> /\ kept[Len(kept)] # <<".", ".">>
         THEN CleanElems(elems, i + 1, SubSeq(kept, 1, Len(kept) - 1))
    ELSE CleanElems(elems, i + 1, Append(kept, elems[i]))

RECURSIVE JoinSlash(_)
JoinSlash(elems) ==
    IF Len(elems) = 1 THEN elems[1]
    ELSE elems[1] \o <<"/">> \o JoinSlash(Tail(elems))

Clean(path) ==
    LET kept == CleanElems(SplitSlash(path, 1, <<>>), 1, <<>>)
    IN IF kept = <<>> THEN <<".">> ELSE JoinSlash(kept)

\* path.Join("dns", elem): empty elements are left out, the rest is joined
\* with "/" and cleaned
PathJoinDns(elem) ==
    IF elem = <<>> THEN <<"d", "n", "s">>
    ELSE Clean(<<"d", "n", "s", "/">> \o elem)

\* func lockKey(zone string) string
lockKey(zone) == <<"d", "n", "s", ":">> \o TrimSuffix(zone, <<".">>)

\* func storageKey(zone string) string
storageKey(zone) == PathJoinDns(TrimSuffix(CanonicalName(zone), <<".">>))

\* ------------------------------------------------------------ inputs

\* Zone names the callers use: one zone spelled three ways, and another zone.
\* The single caller spells its zone with a trailing dot or in upper case; the
\* concurrent callers spell it in lower or upper case or use the other zone.
ZoneA == <<"a">>
ZoneADot == <<"a", ".">>
ZoneUpperA == <<"A">>
ZoneB == <<"b">>

\* A name whose only label ends with "/"
ZoneBSlash == <<"b", "/">>

SeqZones == {ZoneADot, ZoneUpperA}
ConcZones == {ZoneA, ZoneUpperA, ZoneB}

\* Zone names with three different canonical names
DiffZones == {ZoneA, ZoneB, ZoneBSlash}

\* The responder's configured hostname, the zone of the ACME client's
\* records, and the names of the queries: the hostname in two spellings, a
\* sub-domain of it, and a name that ends with its letters but is no
\* sub-domain.
ZoneBDot == <<"b", ".">>
NameUpperB == <<"B", ".">>
NameXB == <<"x", ".", "b", ".">>
NameAB == <<"a", "b", ".">>

QNames == {ZoneBDot, NameUpperB, NameXB, NameAB}

Zones == SeqZones \cup ConcZones \cup DiffZones \cup QNames

LockKeys == {lockKey(z) : z \in Zones}
StorageKeys == {storageKey(z) : z \in Zones}

\* libdns.Record: ID, Type, Name, Value (TTL plays no part)
RecordIDs == {"", "i1"}
RecordNames == {"x", "y"}
RecordTypes == {"TXT"}
RecordValues == {"v"}

Records == [id : RecordIDs, name : RecordNames, type : RecordTypes, value : RecordValues]

Rec(id, name) == [id |-> id, name |-> name, type |-> "TXT", value |-> "v"]

ArgLists == SeqsUpTo(Records, MaxArgs)

\* Record lists of the concurrent callers: single records, two of which
\* conflict with nothing but themselves.
ConcArgLists == {<<Rec("", "x")>>, <<Rec("", "y")>>, <<Rec("i1", "y")>>}

Procs == 1..NumProcs
SeqProcs == {1}

\* Records of the zone the responder serves: two TXT records, a record of a
\* type that dns.StringToType knows and one of a type that it does not know.
DnsRec(type, name, value) == [id |-> "", name |-> name, type |-> type, value |-> value]

DnsRecs ==
    {DnsRec("TXT", <<>>, "v"), DnsRec("TXT", <<"x">>, "w"),
     DnsRec("A", <<>>, "1"), DnsRec("BOGUS", <<>>, "z")}

DnsArgLists == {<<rec>> : rec \in DnsRecs}

\* Query types and queries: no question, or one question
QTypes == {"SOA", "NS", "TXT", "A"}

Queries ==
    {[question |-> <<>>]}
    \cup {[question |-> <<[name |-> name, qtype |-> qtype]>>] : name \in QNames, qtype \in QTypes}

\* ------------------------------------------------------------ zonefiles

\* What Load hands back / what a key holds: no file (nil bytes), the JSON
\* text "null", a JSON array of records, or bytes that are not JSON.
NoFile == [kind |-> "none", recs |-> <<>>]
NullJSON == [kind |-> "null", recs |-> <<>>]
ArrayJSON(rs) == [kind |-> "array", recs |-> rs]
Garbage == [kind |-> "garbage", recs |-> <<>>]

\* A Go slice of records: nil, or a (possibly empty) list.
NilSlice == [nil |-> TRUE, elems |-> <<>>]
Slice(rs) == [nil |-> FALSE, elems |-> rs]

\* append(s, r)
GoAppend(s, r) == Slice(Append(s.elems, r))

\* json.Marshal(recs): a nil slice encodes as null
Marshal(s) == IF s.nil THEN NullJSON ELSE ArrayJSON(s.elems)

\* json.Unmarshal(zonefile, &recs) into the nil slice recs: null leaves it
\* nil, an array fills it, anything else is a decode error
UnmarshalOK(zonefile) == zonefile.kind \in {"null", "array"}

Unmarshal(zonefile) ==
    IF zonefile.kind = "array" THEN Slice(zonefile.recs) ELSE NilSlice

\* errors.As that never finds its target
ErrorsAsNever(err) == FALSE

\* errors.As(err, &errNotExist) with errNotExist of the interface type
\* certmagic.ErrNotExist (v0.14.1: interface{ error }): every non-nil error
\* is assignable to it
ErrorsAsNotExist(err) == err # "nil"

\* ------------------------------------------------------------ the loops

\* The match with the ID comparison left out
MatchesNameAndTypeOnly(a, rec) == a.name = rec.name /\ a.type = rec.type

\* The match of AppendRecords' and DeleteRecords' inner loops
Matches(a, rec) ==
    \/ (a.id # "" /\ a.id = rec.id)
    \/ (a.name = rec.name /\ a.type = rec.type)

\* The loop with "continue Loop" lost: every candidate is appended
RECURSIVE AppendLoopNoSkip(_, _, _, _)
AppendLoopNoSkip(recs, createdRecords, newRecs, i) ==
    IF i > Len(newRecs)
    THEN [recs |-> recs, created |-> createdRecords]
    ELSE AppendLoopNoSkip([nil |-> FALSE, elems |-> Append(recs.elems, newRecs[i])],
                          Append(createdRecords, newRecs[i]), newRecs, i + 1)

\* AppendRecords, Loop: recs grows while the candidates are walked, so a
\* candidate is compared with the candidates appended before it too.
RECURSIVE AppendLoop(_, _, _, _)
AppendLoop(recs, createdRecords, newRecs, i) ==
    IF i > Len(newRecs)
    THEN [recs |-> recs, created |-> createdRecords]
    ELSE IF \E j \in 1..Len(recs.elems) : Matches(newRecs[i], recs.elems[j])
         THEN AppendLoop(recs, createdRecords, newRecs, i + 1)
         ELSE AppendLoop(GoAppend(recs, newRecs[i]),
                         Append(createdRecords, newRecs[i]), newRecs, i + 1)

\* DeleteRecords, the filter. filteredRecs := recs[:0] shares recs' backing
\* array: mem is that array over recs' length, filtered the list appended so
\* far. An append at a position below len(recs) never reallocates (the
\* capacity is at least len(recs)) and so lands in mem, where the inner loop
\* of this and of the following passes reads it; an append beyond len(recs)
\* is never read through recs, whatever the capacity is.
FilterAppend(st, rec) ==
    [st EXCEPT !.filtered = Append(st.filtered, rec),
               !.mem = IF Len(st.filtered) < Len(st.mem)
                       THEN [st.mem EXCEPT ![Len(st.filtered) + 1] = rec]
                       ELSE st.mem]

RECURSIVE DeleteInner(_, _, _)
DeleteInner(st, deleteRec, i) ==
    IF i > Len(st.mem)
    THEN st
    ELSE IF Matches(deleteRec, st.mem[i])
         THEN DeleteInner([st EXCEPT !.deleted = Append(st.deleted, deleteRec)],
                          deleteRec, i + 1)
         ELSE DeleteInner(FilterAppend(st, st.mem[i]), deleteRec, i + 1)

RECURSIVE DeleteLoop(_, _, _)
DeleteLoop(st, deleteRecs, d) ==
    IF d > Len(deleteRecs)
    THEN st
    ELSE DeleteLoop(DeleteInner(st, deleteRecs[d], 1), deleteRecs, d + 1)

\* recs[:0] of a nil slice is nil, of any other slice an empty slice
DeleteFilter(recs, deleteRecs) ==
    LET st == DeleteLoop([mem |-> recs.elems, filtered |-> <<>>, deleted |-> <<>>],
                         deleteRecs, 1)
    IN [filtered |-> IF recs.nil THEN NilSlice ELSE Slice(st.filtered),
        deleted |-> st.deleted]

\* ------------------------------------------------------------ the responder

\* WithSOAHostname("b"): srv.soaHostname = dns.Fqdn(soaHostname)
soaHostname == Fqdn(ZoneB)

\* The labels of a fully qualified name, left to right (dns.Split gives
\* their offsets); the root name has none.
RECURSIVE SplitDot(_, _, _)
SplitDot(s, i, cur) ==
    IF i > Len(s) THEN <<cur>>
    ELSE IF s[i] = "." THEN <<cur>> \o SplitDot(s, i + 1, <<>>)
    ELSE SplitDot(s, i + 1, Append(cur, s[i]))

Labels(s) == IF s = <<".">> THEN <<>> ELSE SplitDot(TrimSuffix(s, <<".">>), 1, <<>>)

\* dns.CountLabel
CountLabel(s) == Len(Labels(s))

\* equal of labels.go: the comparison ignores the case of letters
equal(a, b) == ToLower(a) = ToLower(b)

\* dns.CompareDomainName: how many labels the names share, from the right
RECURSIVE CommonLabels(_, _, _)
CommonLabels(l1, l2, n) ==
    IF /\ n < Len(l1)
       /\ n < Len(l2)
       /\ equal(l1[Len(l1) - n], l2[Len(l2) - n])
    THEN CommonLabels(l1, l2, n + 1)
    ELSE n

CompareDomainName(s1, s2) ==
    IF s1 = <<".">> \/ s2 = <<".">> THEN 0
    ELSE CommonLabels(Labels(s1), Labels(s2), 0)

\* The test made on the characters of the names instead of their labels
IsSubDomainBySuffix(parent, child) == HasSuffix(ToLower(child), ToLower(parent))

\* dns.IsSubDomain
IsSubDomain(parent, child) == CompareDomainName(parent, child) = CountLabel(parent)

\* strings.Trim(s, ".")
RECURSIVE TrimDots(_)
TrimDots(s) ==
    IF s # <<>> /\ s[1] = "." THEN TrimDots(Tail(s))
    ELSE IF s # <<>> /\ s[Len(s)] = "." THEN TrimDots(SubSeq(s, 1, Len(s) - 1))
    ELSE s

\* libdns.AbsoluteName
AbsoluteName(name, zone) ==
    IF zone = <<>> THEN TrimDots(name)
    ELSE IF name = <<>> \/ name = <<"@">> THEN zone
    ELSE (IF HasSuffix(name, <<".">>) THEN name ELSE name \o <<".">>) \o zone

Ns1 == <<"n", "s", "1">>
Hostmaster == <<"h", "o", "s", "t", "m", "a", "s", "t", "e", "r">>

\* A resource record: its header and the data of the three kinds in use
RR(name, rrtype, ttl, nsname, mbox, txt) ==
    [hdr |-> [name |-> name, rrtype |-> rrtype, class |-> "IN", ttl |-> ttl],
     ns |-> nsname, mbox |-> mbox, txt |-> txt]

NoRR == RR(<<>>, "none", 0, <<>>, <<>>, <<>>)

\* The SOA record of ServeDNS
soa(name) ==
    RR(name, "SOA", 0, Fqdn(AbsoluteName(Ns1, soaHostname)),
       AbsoluteName(Hostmaster, soaHostname), <<>>)

\* An NS record that points to the hostname itself
nsOfHostname(name) == RR(name, "NS", 3600, Fqdn(soaHostname), <<>>, <<>>)

\* The NS record of ServeDNS
ns(name) == RR(name, "NS", 3600, Fqdn(AbsoluteName(Ns1, soaHostname)), <<>>, <<>>)

\* The keys of dns.StringToType among the type names in use
StringToType == {"A", "AAAA", "CNAME", "MX", "NS", "SOA", "TXT"}

\* func MessageFromRecord(zone string, rec libdns.Record) (dns.RR, error)
MessageFromRecord(zone, rec) ==
    IF rec.type \notin StringToType THEN [rr |-> NoRR, err |-> "unknown"]
    ELSE IF rec.type = "TXT"
         THEN [rr |-> RR(AbsoluteName(rec.name, zone), "TXT", 3600, <<>>, <<>>, <<rec.value>>),
               err |-> "nil"]
    ELSE [rr |-> NoRR, err |-> "unsupported"]

\* ServeDNS, the loop over the records of GetRecords: the answer so far and
\* the error that ended the loop, if one did
RECURSIVE RangeRecs(_, _, _, _)
RangeRecs(name, recs, i, answer) ==
    IF i > Len(recs) THEN [answer |-> answer, err |-> "nil"]
    ELSE IF recs[i].type \in StringToType
         THEN LET m == MessageFromRecord(name, recs[i])
              IN IF m.err # "nil" THEN [answer |-> answer, err |-> m.err]
                 ELSE RangeRecs(name, recs, i + 1, Append(answer, m.rr))
    ELSE RangeRecs(name, recs, i + 1, answer)

\* A dns.Msg, as far as ServeDNS sets it
NoMsg ==
    [response |-> FALSE, rcode |-> "NOERROR", authoritative |-> FALSE,
     question |-> <<>>, answer |-> <<>>]

\* reply.SetReply(r): a response with the first question of r, no error code
\* and no answer
SetReply(r) ==
    [response |-> TRUE, rcode |-> "NOERROR", authoritative |-> FALSE,
     question |-> <<r.question[1]>>, answer |-> <<>>]

\* What GetRecords gave ServeDNS
NoGot == [called |-> FALSE, ret |-> <<>>, reterr |-> "unset", fault |-> "unset"]

\* The responder's handling of a query r: phase "none" (no query yet),
\* "get" (inside GetRecords), "returned"; the reply handed to WriteMsg, the
\* number of WriteMsg calls and whether the last one failed; the error
\* logged when the record branch gave up.
NoServe ==
    [phase |-> "none", r |-> [question |-> <<>>], reply |-> NoMsg,
     writes |-> 0, writeErr |-> FALSE, got |-> NoGot, logged |-> "nil"]

\* ------------------------------------------------------------ state

\* storage : the zonefile under each storage key (what Load reads and Store
\*           writes)
\* locks   : the caller holding each lock key, 0 when it is free
\* pc      : where each caller is: "idle" (no call yet), "load" (lock held,
\*           before Load), "store" (before Store), "unlock" (before the
\*           deferred Unlock), "done" (the call has returned or panicked and
\*           the caller looks at the result; a responder whose GetRecords
\*           has returned goes on from here)
\* call    : the caller's current or last call: its arguments, what its steps
\*           saw and did, its pending result (out, err) and what it returned
\* serve   : the query a responder goroutine handles or handled last, and
\*           its reply

ToSlice(rs) == IF rs = <<>> THEN NilSlice ELSE Slice(rs)

NewCall(op, zone, args) ==
    [op |-> op, zone |-> zone, args |-> args,
     acquired |-> FALSE, loads |-> 0, stores |-> 0, unlocks |-> 0,
     fault |-> "unset", lerr |-> "unset", loaded |-> NoFile, newfile |-> NoFile,
     out |-> NilSlice, err |-> "nil",
     unlockErr |-> FALSE, ret |-> NilSlice, reterr |-> "unset",
     again |-> FALSE, first |-> NoFile]

\* A ULID: 48 bits of millisecond timestamp followed by 80 bits of entropy.
\* The zero value is the zero ULID; its bytes sort before every minted id.
ZeroID == [ts |-> 0, rnd |-> 0]
ZeroHost == [ID |-> ZeroID, Hostname |-> <<>>]

\* A goroutine serving no request
NoHS ==
    [pc |-> "idle", op |-> "none", Amount |-> 0, Request |-> [Host |-> <<>>],
     hosts |-> <<>>, i |-> 0, id |-> ZeroID, entropy |-> 0, host |-> ZeroHost,
     err |-> "nil", status |-> 0, data |-> <<>>, service |-> FALSE,
     database |-> 0, query |-> <<>>]

\* The process after its start: nothing drawn from the global random source
\* (g); the clock in milliseconds, where the requests of one run of the
\* process fall into one millisecond and a new start into a later one (the
\* case in which the order and the distinctness of the ids of one run rest
\* on the entropy alone); the state of the entropy source, which is
\* the number of values taken from it when one goroutine uses it at a time;
\* the number of ids minted so far
NewEnv(clock, entropy, minted) ==
    [g |-> 0, clock |-> clock, entropy |-> entropy, minted |-> minted]

\* The database with no key in it
EmptyDB == <<>>

\* The listeners of the DNS server and of the HTTP server
Listeners == {"udp", "tcp", "http", "tls"}

\* The servers before Run: no listener is configured (srv.udpServer,
\* srv.tcpServer, srv.httpServer and srv.tlsServer are nil), and neither
\* Run nor Shutdown has been called.  go and sh are the positions of the
\* goroutines of Run and of Shutdown, runResult and result their
\* *multierror.Error (the set of the listeners whose error it holds), rread
\* and read the value a goroutine has read of it before it writes.
NoServer ==
    [kind |-> "none", nets |-> {},
     server |-> [n \in Listeners |-> "nil"],
     run |-> "idle", go |-> [n \in Listeners |-> "idle"], failed |-> {},
     runResult |-> {}, rread |-> [n \in Listeners |-> {}], runRet |-> {},
     shut |-> "idle", sh |-> [n \in Listeners |-> "idle"],
     err |-> [n \in Listeners |-> "nil"],
     result |-> {}, read |-> [n \in Listeners |-> {}], shutRet |-> {}]

Init ==
    /\ storage = [k \in StorageKeys |-> NoFile]
    /\ locks = [k \in LockKeys |-> 0]
    /\ pc = [p \in Procs |-> "idle"]
    /\ call = [p \in Procs |-> NewCall("none", <<>>, <<>>)]
    /\ serve = [p \in Procs |-> NoServe]
    /\ db = EmptyDB
    /\ hs = [g \in Procs |-> NoHS]
    /\ env = NewEnv(1, 0, 0)
    /\ srv = NoServer

\* What storage.Load(key) can hand back: the file, or ErrNotExist when there
\* is none (fault "none"); another error (fault "io"); or, of an existing
\* file, bytes that do not decode (fault "garbled").
LoadResults(key) ==
    {IF storage[key].kind = "none"
     THEN [zonefile |-> NoFile, err |-> "notexist", fault |-> "none"]
     ELSE [zonefile |-> storage[key], err |-> "nil", fault |-> "none"]}
    \cup {[zonefile |-> NoFile, err |-> "io", fault |-> "io"]}
    \cup {[zonefile |-> Garbage, err |-> "nil", fault |-> "garbled"] :
             k \in {x \in {key} : storage[x].kind # "none"}}

\* The list a call would store, from the zonefile as it is now: the cap on
\* the inputs that keeps zonefiles within MaxRecs.
WouldStore(op, zone, args) ==
    LET recs == Unmarshal(storage[storageKey(zone)])
    IN CASE op = "append" -> AppendLoop(recs, <<>>, args, 1).recs.elems
         [] op = "delete" -> DeleteFilter(recs, args).filtered.elems
         [] OTHER -> <<>>

\* Lock with its error dropped: the call goes on without the lock
LockErrorIgnored(p, op, zone, args) ==
    /\ \/ /\ locks[lockKey(zone)] = 0
          /\ locks' = [locks EXCEPT ![lockKey(zone)] = p]
          /\ call' = [call EXCEPT ![p] = [NewCall(op, zone, args) EXCEPT !.acquired = TRUE]]
       \/ /\ call' = [call EXCEPT ![p] = NewCall(op, zone, args)]
          /\ UNCHANGED locks
    /\ pc' = [pc EXCEPT ![p] = "load"]
    /\ UNCHANGED storage

\* srv.storage.Lock(ctx, lockKey), the first step of the three operations:
\* it waits while the key is locked and can fail; when it fails the call
\* returns at once.
Lock(p, op, zone, args) ==
    /\ \/ /\ locks[lockKey(zone)] = 0
          /\ locks' = [locks EXCEPT ![lockKey(zone)] = p]
          /\ pc' = [pc EXCEPT ![p] = "load"]
          /\ call' = [call EXCEPT ![p] = [NewCall(op, zone, args) EXCEPT !.acquired = TRUE]]
       \/ /\ pc' = [pc EXCEPT ![p] = "done"]
          /\ call' = [call EXCEPT ![p] =
                 [NewCall(op, zone, args) EXCEPT !.err = "lock", !.reterr = "lock"]]
          /\ UNCHANGED locks
    /\ UNCHANGED storage

AppendRecords(p, zone, newRecs) ==
    /\ pc[p] = "idle"
    /\ Len(WouldStore("append", zone, newRecs)) <= MaxRecs
    /\ Lock(p, "append", zone, newRecs)
    /\ UNCHANGED serve
    /\ UNCHANGED otherVars

DeleteRecords(p, zone, deleteRecs) ==
    /\ pc[p] = "idle"
    /\ Len(WouldStore("delete", zone, deleteRecs)) <= MaxRecs
    /\ Lock(p, "delete", zone, deleteRecs)
    /\ UNCHANGED serve
    /\ UNCHANGED otherVars

GetRecords(p, zone) ==
    /\ pc[p] = "idle"
    /\ Lock(p, "get", zone, <<>>)
    /\ UNCHANGED serve
    /\ UNCHANGED otherVars

\* The caller of a successful AppendRecords makes the same call again, with
\* the same zone and records; first is the zonefile the first call loaded.
AppendRecordsAgain(p) ==
    /\ pc[p] = "done"
    /\ call[p].op = "append"
    /\ call[p].reterr = "nil"
    /\ ~call[p].again
    /\ \/ /\ locks[lockKey(call[p].zone)] = 0
          /\ locks' = [locks EXCEPT ![lockKey(call[p].zone)] = p]
          /\ pc' = [pc EXCEPT ![p] = "load"]
          /\ call' = [call EXCEPT ![p] =
                 [NewCall("append", call[p].zone, call[p].args) EXCEPT
                     !.acquired = TRUE, !.again = TRUE, !.first = call[p].loaded]]
       \/ /\ pc' = [pc EXCEPT ![p] = "done"]
          /\ call' = [call EXCEPT ![p] =
                 [NewCall("append", call[p].zone, call[p].args) EXCEPT
                     !.err = "lock", !.reterr = "lock",
                     !.again = TRUE, !.first = call[p].loaded]]
          /\ UNCHANGED locks
    /\ UNCHANGED <<storage, serve>>
    /\ UNCHANGED otherVars

\* A return statement after the lock was taken: the deferred Unlock is next.
Leave(c, out, err) == [c EXCEPT !.out = out, !.err = err]

Loaded(c, lr) ==
    [c EXCEPT !.loads = 1, !.fault = lr.fault, !.lerr = lr.err, !.loaded = lr.zonefile]

\* AppendRecords from Load to json.Marshal
AppendLoad(p) ==
    /\ pc[p] = "load"
    /\ call[p].op = "append"
    /\ \E lr \in LoadResults(storageKey(call[p].zone)) :
         LET c == Loaded(call[p], lr)
             recs == IF lr.zonefile.kind # "none" THEN Unmarshal(lr.zonefile) ELSE NilSlice
             r == AppendLoop(recs, <<>>, c.args, 1)
         IN IF lr.err # "nil" /\ ~ErrorsAsNotExist(lr.err)
            THEN /\ call' = [call EXCEPT ![p] = Leave(c, NilSlice, "load")]
                 /\ pc' = [pc EXCEPT ![p] = "unlock"]
            ELSE IF lr.zonefile.kind # "none" /\ ~UnmarshalOK(lr.zonefile)
            THEN /\ call' = [call EXCEPT ![p] = Leave(c, NilSlice, "decode")]
                 /\ pc' = [pc EXCEPT ![p] = "unlock"]
            ELSE /\ call' = [call EXCEPT ![p] =
                        [c EXCEPT !.newfile = Marshal(r.recs), !.out = ToSlice(r.created)]]
                 /\ pc' = [pc EXCEPT ![p] = "store"]
    /\ UNCHANGED <<storage, locks, serve>>
    /\ UNCHANGED otherVars

\* DeleteRecords from Load to json.Marshal. errors.As(err, errNotExist) is
\* handed a nil *certmagic.ErrNotExist and panics on every non-nil err.
DeleteLoad(p) ==
    /\ pc[p] = "load"
    /\ call[p].op = "delete"
    /\ \E lr \in LoadResults(storageKey(call[p].zone)) :
         LET c == Loaded(call[p], lr)
             recs == IF lr.zonefile.kind # "none" THEN Unmarshal(lr.zonefile) ELSE NilSlice
             r == DeleteFilter(recs, c.args)
         IN IF lr.err # "nil"
            THEN /\ call' = [call EXCEPT ![p] = Leave(c, NilSlice, "panic")]
                 /\ pc' = [pc EXCEPT ![p] = "unlock"]
            ELSE IF lr.zonefile.kind # "none" /\ ~UnmarshalOK(lr.zonefile)
            THEN /\ call' = [call EXCEPT ![p] = Leave(c, NilSlice, "decode")]
                 /\ pc' = [pc EXCEPT ![p] = "unlock"]
            ELSE /\ call' = [call EXCEPT ![p] =
                        [c EXCEPT !.newfile = Marshal(r.filtered), !.out = ToSlice(r.deleted)]]
                 /\ pc' = [pc EXCEPT ![p] = "store"]
    /\ UNCHANGED <<storage, locks, serve>>
    /\ UNCHANGED otherVars

\* GetRecords from Load to its return
GetLoad(p) ==
    /\ pc[p] = "load"
    /\ call[p].op = "get"
    /\ \E lr \in LoadResults(storageKey(call[p].zone)) :
         LET c == Loaded(call[p], lr)
         IN call' = [call EXCEPT ![p] =
                IF ErrorsAsNotExist(lr.err) THEN Leave(c, NilSlice, "nil")
                ELSE IF lr.err # "nil" THEN Leave(c, NilSlice, "load")
                ELSE IF ~UnmarshalOK(lr.zonefile) THEN Leave(c, NilSlice, "decode")
                ELSE Leave(c, Unmarshal(lr.zonefile), "nil")]
    /\ pc' = [pc EXCEPT ![p] = "unlock"]
    /\ UNCHANGED <<storage, locks, serve>>
    /\ UNCHANGED otherVars

\* srv.storage.Store(storageKey, newZonefile) of AppendRecords and
\* DeleteRecords, and the return after it; a failed Store writes nothing.
Store(p) ==
    /\ pc[p] = "store"
    /\ \/ /\ storage' = [storage EXCEPT ![storageKey(call[p].zone)] = call[p].newfile]
          /\ call' = [call EXCEPT ![p].stores = 1]
       \/ /\ call' = [call EXCEPT ![p] = [Leave(call[p], NilSlice, "store") EXCEPT !.stores = 1]]
          /\ UNCHANGED storage
    /\ pc' = [pc EXCEPT ![p] = "unlock"]
    /\ UNCHANGED <<locks, serve>>
    /\ UNCHANGED otherVars

\* The deferred function turning an Unlock error into the call's error
ReturnedUnlockError(c, unlockErr) ==
    [c EXCEPT !.unlocks = 1, !.unlockErr = unlockErr,
              !.ret = IF unlockErr THEN NilSlice ELSE c.out,
              !.reterr = IF unlockErr THEN "unlock" ELSE c.err]

\* What the caller gets once the deferred function has run: the pending
\* result; an Unlock error is only logged.
Returned(c, unlockErr) ==
    [c EXCEPT !.unlocks = 1, !.unlockErr = unlockErr, !.ret = c.out, !.reterr = c.err]

\* The deferred srv.storage.Unlock(lockKey). A storage whose failed Unlock
\* leaves the key locked only takes behaviours away (later Locks of the key
\* wait or fail), so the key is freed here either way.
Unlock(p) ==
    /\ pc[p] = "unlock"
    /\ \E unlockErr \in BOOLEAN :
         call' = [call EXCEPT ![p] = Returned(call[p], unlockErr)]
    /\ locks' = [locks EXCEPT ![lockKey(call[p].zone)] = 0]
    /\ pc' = [pc EXCEPT ![p] = "done"]
    /\ UNCHANGED <<storage, serve>>
    /\ UNCHANGED otherVars

\* The caller has its result and is free to make its next call; a
\* responder goroutine that has returned ends.
Resume(p) ==
    /\ pc[p] = "done"
    /\ serve[p].phase # "get"
    /\ pc' = [pc EXCEPT ![p] = "idle"]
    /\ call' = [call EXCEPT ![p] = NewCall("none", <<>>, <<>>)]
    /\ serve' = [serve EXCEPT ![p] = NoServe]
    /\ UNCHANGED <<storage, locks>>
    /\ UNCHANGED otherVars

\* The deferred w.WriteMsg(reply); its error is logged
WriteMsg(sv, reply, werr) ==
    [sv EXCEPT !.reply = reply, !.writes = sv.writes + 1, !.writeErr = werr,
               !.phase = "returned"]

\* ServeDNS up to its return or, in the default branch of the switch, up to
\* the Lock of GetRecords
ServeDNS(p, r) ==
    /\ pc[p] = "idle"
    /\ LET sv == [NoServe EXCEPT !.r = r]
           name == r.question[1].name
           reply == SetReply(r)
           auth == [reply EXCEPT !.authoritative = TRUE]
       IN IF Len(r.question) = 0
          THEN /\ serve' = [serve EXCEPT ![p] = [sv EXCEPT !.phase = "returned"]]
               /\ pc' = [pc EXCEPT ![p] = "done"]
               /\ UNCHANGED <<storage, locks, call>>
          ELSE IF ~IsSubDomain(Fqdn(soaHostname), Fqdn(name))
          THEN /\ \E werr \in BOOLEAN :
                     serve' = [serve EXCEPT ![p] = WriteMsg(sv, reply, werr)]
               /\ pc' = [pc EXCEPT ![p] = "done"]
               /\ UNCHANGED <<storage, locks, call>>
          ELSE IF r.question[1].qtype = "SOA"
          THEN /\ \E werr \in BOOLEAN :
                     serve' = [serve EXCEPT ![p] =
                         WriteMsg(sv, [auth EXCEPT !.answer = Append(auth.answer, soa(name))], werr)]
               /\ pc' = [pc EXCEPT ![p] = "done"]
               /\ UNCHANGED <<storage, locks, call>>
          ELSE IF r.question[1].qtype = "NS"
          THEN /\ \E werr \in BOOLEAN :
                     serve' = [serve EXCEPT ![p] =
                         WriteMsg(sv, [auth EXCEPT !.answer = Append(auth.answer, ns(name))], werr)]
               /\ pc' = [pc EXCEPT ![p] = "done"]
               /\ UNCHANGED <<storage, locks, call>>
          ELSE /\ Lock(p, "get", name, <<>>)
               /\ serve' = [serve EXCEPT ![p] = [sv EXCEPT !.phase = "get", !.reply = auth]]
    /\ UNCHANGED otherVars

\* The default branch with a plain WriteMsg at its end in place of the
\* deferred one: the error returns leave without a reply
ServeDNSRecordsNoDefer(p) ==
    /\ pc[p] = "done"
    /\ serve[p].phase = "get"
    /\ LET c == call[p]
           conv == RangeRecs(c.zone, c.ret.elems, 1, <<>>)
           sv == [serve[p] EXCEPT
                     !.got = [called |-> TRUE, ret |-> c.ret.elems,
                              reterr |-> c.reterr, fault |-> c.fault],
                     !.logged = IF c.reterr # "nil" THEN "get"
                                ELSE IF conv.err # "nil" THEN "convert" ELSE "nil"]
       IN IF c.reterr # "nil" \/ conv.err # "nil"
          THEN serve' = [serve EXCEPT ![p] = [sv EXCEPT !.phase = "returned"]]
          ELSE \E werr \in BOOLEAN :
                  serve' = [serve EXCEPT ![p] =
                      WriteMsg(sv, [sv.reply EXCEPT !.answer = conv.answer], werr)]
    /\ call' = [call EXCEPT ![p] = NewCall("none", <<>>, <<>>)]
    /\ UNCHANGED <<storage, locks, pc>>
    /\ UNCHANGED otherVars

\* The default branch answering a failed GetRecords with the error code
\* SERVFAIL
ServeDNSRecordsServFail(p) ==
    /\ pc[p] = "done"
    /\ serve[p].phase = "get"
    /\ LET c == call[p]
           conv == RangeRecs(c.zone, c.ret.elems, 1, <<>>)
           sv == [serve[p] EXCEPT
                     !.got = [called |-> TRUE, ret |-> c.ret.elems,
                              reterr |-> c.reterr, fault |-> c.fault],
                     !.logged = IF c.reterr # "nil" THEN "get"
                                ELSE IF conv.err # "nil" THEN "convert" ELSE "nil"]
           reply == IF c.reterr # "nil" THEN [sv.reply EXCEPT !.rcode = "SERVFAIL"]
                    ELSE [sv.reply EXCEPT !.answer = conv.answer]
       IN \E werr \in BOOLEAN :
             serve' = [serve EXCEPT ![p] = WriteMsg(sv, reply, werr)]
    /\ call' = [call EXCEPT ![p] = NewCall("none", <<>>, <<>>)]
    /\ UNCHANGED <<storage, locks, pc>>
    /\ UNCHANGED otherVars

\* ServeDNS, the default branch once GetRecords has returned: the error
\* return, the loop over the records, and the deferred WriteMsg
ServeDNSRecords(p) ==
    /\ pc[p] = "done"
    /\ serve[p].phase = "get"
    /\ LET c == call[p]
           conv == RangeRecs(c.zone, c.ret.elems, 1, <<>>)
           sv == [serve[p] EXCEPT
                     !.got = [called |-> TRUE, ret |-> c.ret.elems,
                              reterr |-> c.reterr, fault |-> c.fault],
                     !.logged = IF c.reterr # "nil" THEN "get"
                                ELSE IF conv.err # "nil" THEN "convert" ELSE "nil"]
           reply == IF c.reterr # "nil" THEN sv.reply
                    ELSE [sv.reply EXCEPT !.answer = conv.answer]
       IN \E werr \in BOOLEAN :
             serve' = [serve EXCEPT ![p] = WriteMsg(sv, reply, werr)]
    /\ call' = [call EXCEPT ![p] = NewCall("none", <<>>, <<>>)]
    /\ UNCHANGED <<storage, locks, pc>>
    /\ UNCHANGED otherVars

\* One caller at a time, any operation, any arguments.
Next ==
    \E p \in SeqProcs :
        \/ \E zone \in SeqZones, newRecs \in ArgLists : AppendRecords(p, zone, newRecs)
        \/ \E zone \in SeqZones, deleteRecs \in ArgLists : DeleteRecords(p, zone, deleteRecs)
        \/ \E zone \in SeqZones : GetRecords(p, zone)
        \/ AppendRecordsAgain(p)
        \/ AppendLoad(p)
        \/ DeleteLoad(p)
        \/ GetLoad(p)
        \/ Store(p)
        \/ Unlock(p)
        \/ Resume(p)

Spec == Init /\ [][Next]_vars

\* Concurrent callers, each making one AppendRecords call.
ConcNext ==
    \E p \in Procs :
        \/ \E zone \in ConcZones, newRecs \in ConcArgLists : AppendRecords(p, zone, newRecs)
        \/ AppendLoad(p)
        \/ Store(p)
        \/ Unlock(p)

ConcSpec == Init /\ [][ConcNext]_vars

\* Concurrent callers, each making one AppendRecords or GetRecords call on
\* one of the zones with different canonical names.
DiffNext ==
    \E p \in Procs :
        \/ \E zone \in DiffZones, newRecs \in ConcArgLists : AppendRecords(p, zone, newRecs)
        \/ \E zone \in DiffZones : GetRecords(p, zone)
        \/ AppendLoad(p)
        \/ GetLoad(p)
        \/ Store(p)
        \/ Unlock(p)

DiffSpec == Init /\ [][DiffNext]_vars

\* One goroutine at a time: the ACME client appends records to the zone of
\* the hostname, and the responder answers queries.
DnsNext ==
    \E p \in SeqProcs :
        \/ \E r \in Queries : ServeDNS(p, r)
        \/ GetLoad(p)
        \/ ServeDNSRecords(p)
        \/ \E newRecs \in DnsArgLists : AppendRecords(p, ZoneBDot, newRecs)
        \/ AppendLoad(p)
        \/ Store(p)
        \/ Unlock(p)
        \/ Resume(p)

DnsSpec == Init /\ [][DnsNext]_vars

\* ------------------------------------------------------------ the hosts database

\* Bounds of the hosts part: the largest amount a CreateHosts request that
\* passes validation asks for, and the number of values the shared entropy
\* source hands out (every host id and every capture entry id takes one)
MaxAmount == 2
MaxDraws == 4

\* Byte order of two ULIDs: timestamp first, entropy second
IDLess(a, b) == a.ts < b.ts \/ (a.ts = b.ts /\ a.rnd < b.rnd)

\* The key prefixes: high nibble for the kind, low nibble for the index
hostKeyPrefix == 0
hostHostnameIndex == 1
httpLogKeyPrefix == 16
httpLogHostIDIndex == 17
indexKeyMask == 15

\* key[0] = (indexKey & indexKeyMask) | prefix, followed by the value. The
\* prefixes have an empty low nibble, so the bitwise or is a sum. The value
\* is the sequence of the key's parts: <<id>> for a primary key,
\* <<hostname + "#", id>> for the hostname index and <<hostID, id>> for the
\* host id index.
entryKey(prefix, indexKey, indexValue) ==
    [b |-> (indexKey % (indexKeyMask + 1)) + prefix, v |-> indexValue]

\* it.ValidForPrefix(prefix)
ValidForPrefix(key, prefix) ==
    IF key.b # prefix.b \/ Len(key.v) < Len(prefix.v)
    THEN FALSE
    ELSE SubSeq(key.v, 1, Len(prefix.v)) = prefix.v

\* gob encoding of a host and of a stored log entry, and the decoding into
\* hosts.Host and into hosts.HTTPLogEntry, whose Request and Response fields
\* are not among the encoded ones and stay nil
GobEncode(x) == [gob |-> x]
GobDecodeHost(raw) == raw.gob
GobDecodeEntry(raw) ==
    [ID |-> raw.gob.ID, HostID |-> raw.gob.HostID,
     Request |-> "nil", Response |-> "nil",
     RawRequest |-> raw.gob.RawRequest, RawResponse |-> raw.gob.RawResponse]
NoValue == [gob |-> "none"]

\* httputil.DumpRequest / DumpResponse: the wire form of the message
DumpRequest(req) == [wire |-> "request", host |-> req.Host]
DumpResponse(res) == [wire |-> "response", host |-> <<>>]

\* txn.SetEntry of every entry in turn, then the commit
RECURSIVE SetEntries(_, _, _)
SetEntries(d, entries, i) ==
    IF i > Len(entries) THEN d
    ELSE LET e == entries[i]
             put == [k \in DOMAIN d \cup {e.Key} |->
                        IF k = e.Key THEN e.Value ELSE d[k]]
         IN  SetEntries(put, entries, i + 1)

\* The entries StoreHosts builds: the host itself and its hostname index
RECURSIVE HostEntries(_, _)
HostEntries(hosts, i) ==
    IF i > Len(hosts) THEN <<>>
    ELSE <<[Key |-> entryKey(hostKeyPrefix, 0, <<hosts[i].ID>>),
            Value |-> GobEncode(hosts[i])],
           [Key |-> entryKey(hostKeyPrefix, hostHostnameIndex,
                             <<hosts[i].Hostname, hosts[i].ID>>),
            Value |-> NoValue]>>
         \o HostEntries(hosts, i + 1)

\* StoreHosts commits only a part of its entries when the write fails
StoreHostsPartial(d, hosts, fault) ==
    IF Len(hosts) = 0 THEN [db |-> d, err |-> "zero length", called |-> FALSE]
    ELSE IF fault # "none"
    THEN [db |-> SetEntries(d, SubSeq(HostEntries(hosts, 1), 1, 1), 1),
          err |-> "commit", called |-> TRUE]
    ELSE [db |-> SetEntries(d, HostEntries(hosts, 1), 1), err |-> "nil",
          called |-> TRUE]

\* StoreHosts: no hosts is an error; otherwise one Update transaction sets
\* every entry, and a failed transaction leaves the database as it was
StoreHosts(d, hosts, fault) ==
    IF Len(hosts) = 0 THEN [db |-> d, err |-> "zero length", called |-> FALSE]
    ELSE IF fault # "none"
    THEN [db |-> d, err |-> "commit", called |-> TRUE]
    ELSE [db |-> SetEntries(d, HostEntries(hosts, 1), 1), err |-> "nil",
          called |-> TRUE]

\* FindHostByID: the primary record under the id, or ErrHostNotFound
FindHostByID(d, hostID) ==
    LET key == entryKey(hostKeyPrefix, 0, <<hostID>>)
    IN  IF key \notin DOMAIN d
        THEN [host |-> ZeroHost, err |-> "ErrHostNotFound"]
        ELSE [host |-> GobDecodeHost(d[key]), err |-> "nil"]

\* The first key of a non-empty set of index keys in byte order; the keys
\* share their prefix, so the order is that of the id at the end
FirstKey(keys) ==
    CHOOSE k \in keys :
        \A o \in keys \ {k} : IDLess(k.v[Len(k.v)], o.v[Len(o.v)])

\* FindHostByHostname: the first hostname-index key under hostname + "#",
\* the id after the "#", and the primary record under that id
FindHostByHostname(d, hostname) ==
    LET prefix == entryKey(hostKeyPrefix, hostHostnameIndex, <<hostname>>)
        keys == {k \in DOMAIN d : ValidForPrefix(k, prefix)}
    IN  IF keys = {}
        THEN [host |-> ZeroHost, err |-> "ErrHostNotFound"]
        ELSE LET hostID == FirstKey(keys).v[2]
                 key == entryKey(hostKeyPrefix, 0, <<hostID>>)
             IN  IF key \notin DOMAIN d
                 THEN [host |-> ZeroHost, err |-> "ErrHostNotFound"]
                 ELSE [host |-> GobDecodeHost(d[key]), err |-> "nil"]

\* The entries the database's StoreHTTPLogEntry builds
LogEntries(entry) ==
    <<[Key |-> entryKey(httpLogKeyPrefix, 0, <<entry.ID>>),
       Value |-> GobEncode([ID |-> entry.ID, HostID |-> entry.HostID,
                            RawRequest |-> DumpRequest(entry.Request),
                            RawResponse |-> DumpResponse(entry.Response)])],
      [Key |-> entryKey(httpLogKeyPrefix, httpLogHostIDIndex,
                        <<entry.HostID, entry.ID>>),
       Value |-> NoValue]>>

\* StoreHTTPLogEntry leaves the primary record behind when the write fails
DbStoreHTTPLogEntryPrimaryFirst(d, entry, fault) ==
    IF fault # "none"
    THEN [db |-> SetEntries(d, SubSeq(LogEntries(entry), 1, 1), 1), err |-> "commit"]
    ELSE [db |-> SetEntries(d, LogEntries(entry), 1), err |-> "nil"]

\* The database's StoreHTTPLogEntry: one Update transaction for both entries
DbStoreHTTPLogEntry(d, entry, fault) ==
    IF fault # "none" THEN [db |-> d, err |-> "commit"]
    ELSE [db |-> SetEntries(d, LogEntries(entry), 1), err |-> "nil"]

\* The inner loop of ListHTTPLogEntries: the index keys under one host id in
\* key order, each followed to the primary record under the entry id
RECURSIVE ListHost(_, _, _)
ListHost(d, keys, acc) ==
    IF keys = {} THEN [entries |-> acc, err |-> "nil"]
    ELSE LET hostIndexKey == FirstKey(keys)
             httpLogEntryID == hostIndexKey.v[2]
             key == entryKey(httpLogKeyPrefix, 0, <<httpLogEntryID>>)
         IN  IF key \notin DOMAIN d
             THEN [entries |-> <<>>, err |-> "commit"]
             ELSE ListHost(d, keys \ {hostIndexKey},
                           Append(acc, GobDecodeEntry(d[key])))

\* The index keys of one host id, followed in key order
ListHostID(d, hostID) ==
    LET prefix == entryKey(httpLogKeyPrefix, httpLogHostIDIndex, <<hostID>>)
    IN  ListHost(d, {k \in DOMAIN d : ValidForPrefix(k, prefix)}, <<>>)

\* ListHTTPLogEntries: the host ids in the order given, in one View
RECURSIVE DbListHTTPLogEntries(_, _, _, _)
DbListHTTPLogEntries(d, hostIDs, i, acc) ==
    IF i > Len(hostIDs) THEN [entries |-> acc, err |-> "nil"]
    ELSE LET r == ListHostID(d, hostIDs[i])
         IN  IF r.err # "nil" THEN [entries |-> <<>>, err |-> r.err]
             ELSE DbListHTTPLogEntries(d, hostIDs, i + 1, acc \o r.entries)

\* ------------------------------------------------------------ the hosts service

\* The k-th hostname the process generates: petname.Generate and rand.Read
\* draw from the global math/rand source, which nothing seeds, so the k-th
\* draw after a start of the process is the same in every run. Distinct
\* positions of the stream are taken to give distinct names.
Hostname(k) == <<ToString(k)>>
Hostnames == {<<>>} \cup {Hostname(k) : k \in 1..MaxAmount + 1}

\* The entropy source is a pseudo-random generator: its k-th value is a
\* function of its seed, the values of one stream are distinct and are not
\* in ascending order. Read(state) is the value a reader gets that finds the
\* generator in the given state; the reader then writes the next state.
Read(state) == IF state % 2 = 0 THEN state + 2 ELSE state
Left == MaxDraws - env.minted

\* The request bodies of POST /api/hosts/: none, one that is not JSON, and
\* an amount; 50 is the largest amount validate() lets through
MaxValidAmount == 50
Amounts == 0..MaxAmount \cup {MaxValidAmount + 1}
Bodies ==
    {[kind |-> "empty", Amount |-> 0], [kind |-> "garbage", Amount |-> 0]}
    \cup {[kind |-> "json", Amount |-> a] : a \in Amounts}

\* validate() without the lower limit
validateUpperOnly(body) == body.Amount > MaxValidAmount

\* validate(): TRUE when the body is rejected
validate(body) == body.Amount < 1 \/ body.Amount > MaxValidAmount

\* The handler's answer
Answer(h, err, status, data) ==
    [h EXCEPT !.pc = "done", !.err = err, !.status = status, !.data = data]

\* POST /api/hosts/: a body that is empty or does not parse, or an amount
\* that validate() rejects, is answered with 400 before anything is called;
\* otherwise the service's CreateHosts starts with a slice of amount zero
\* hosts
CreateHosts(g, body) ==
    /\ hs[g].pc = "idle"
    /\ LET h == [hs[g] EXCEPT !.op = "create", !.Amount = body.Amount]
       IN  IF body.kind # "json" \/ validate(body)
           THEN hs' = [hs EXCEPT ![g] = Answer(h, "bad request", 400, <<>>)]
           ELSE /\ body.Amount <= Left
                /\ hs' = [hs EXCEPT ![g] =
                     IF body.Amount = 0
                     THEN Answer([h EXCEPT !.service = TRUE], "nil", 201, <<>>)
                     ELSE [h EXCEPT !.service = TRUE, !.pc = "iter", !.i = 1,
                                    !.hosts = [j \in 1..body.Amount |-> ZeroHost]]]
    /\ UNCHANGED <<db, env>>
    /\ UNCHANGED <<zoneVars, srv>>

\* One iteration of CreateHosts up to the store: the timestamp is read from
\* the clock, the entropy source is read, and the hostname is drawn from the
\* global source. The entropy source's state is written back in a later
\* step (EntropyAdvance): nothing guards it against another goroutine.
CreateHostsIter(g) ==
    /\ hs[g].pc = "iter"
    /\ Left > 0
    /\ LET host == [ID |-> [ts |-> env.clock, rnd |-> Read(env.entropy)],
                    Hostname |-> Hostname(env.g + 1)]
       IN  /\ hs' = [hs EXCEPT ![g] =
                 [@ EXCEPT !.pc = "entropy", !.id = host.ID,
                           !.entropy = env.entropy,
                           !.hosts = [@ EXCEPT ![hs[g].i] = host]]]
           /\ env' = [env EXCEPT !.g = @ + 1, !.minted = @ + 1]
    /\ UNCHANGED db
    /\ UNCHANGED <<zoneVars, srv>>

\* The entropy source's new state is written, computed from the state that
\* was read, and ulid.MustNew returns the id
EntropyAdvance(g) ==
    /\ hs[g].pc = "entropy"
    /\ hs' = [hs EXCEPT ![g] =
            [@ EXCEPT !.pc = IF hs[g].op = "create" THEN "store" ELSE "capstore"]]
    /\ env' = [env EXCEPT !.entropy = hs[g].entropy + 1]
    /\ UNCHANGED db
    /\ UNCHANGED <<zoneVars, srv>>

\* The end of an iteration: StoreHosts is given the whole slice, the hosts
\* that are still zero included. An error ends the call (the handler
\* answers 500); after the last iteration the handler answers 201 with the
\* hosts.
CreateHostsStore(g) ==
    /\ hs[g].pc = "store"
    /\ \E fault \in {"none", "io"} :
          LET r == StoreHosts(db, hs[g].hosts, fault)
              h == [hs[g] EXCEPT !.database = @ + 1]
          IN  /\ db' = r.db
              /\ hs' = [hs EXCEPT ![g] =
                    IF r.err # "nil" THEN Answer(h, r.err, 500, <<>>)
                    ELSE IF h.i = h.Amount THEN Answer(h, "nil", 201, h.hosts)
                    ELSE [h EXCEPT !.pc = "iter", !.i = @ + 1]]
    /\ UNCHANGED env
    /\ UNCHANGED <<zoneVars, srv>>

\* CaptureRequest that answers OK when the host is not found
CaptureRequestAlwaysOK(g, hostname) ==
    /\ hs[g].pc = "idle"
    /\ \E fault \in {"none", "io"} :
          LET h == [hs[g] EXCEPT !.op = "capture", !.service = TRUE,
                                 !.database = @ + 1,
                                 !.Request = [Host |-> hostname]]
              r == FindHostByHostname(db, hostname)
          IN  IF fault # "none"
              THEN /\ hs' = [hs EXCEPT ![g] = Answer(h, "io", 500, <<>>)]
                   /\ UNCHANGED env
              ELSE IF r.err # "nil"
              THEN /\ hs' = [hs EXCEPT ![g] = Answer(h, r.err, 200, <<"OK">>)]
                   /\ UNCHANGED env
              ELSE /\ Left > 0
                   /\ hs' = [hs EXCEPT ![g] =
                         [h EXCEPT !.pc = "entropy", !.host = r.host,
                                   !.entropy = env.entropy,
                                   !.id = [ts |-> env.clock,
                                           rnd |-> Read(env.entropy)]]]
                   /\ env' = [env EXCEPT !.minted = @ + 1]
    /\ UNCHANGED db
    /\ UNCHANGED <<zoneVars, srv>>

\* CaptureRequest up to the store: the service's StoreHTTPLogEntry looks the
\* request's Host up. ErrHostNotFound is answered with 404 and another
\* error with 500; for a host that is found the timestamp and the entropy
\* source are read for the entry's id.
CaptureRequest(g, hostname) ==
    /\ hs[g].pc = "idle"
    /\ \E fault \in {"none", "io"} :
          LET h == [hs[g] EXCEPT !.op = "capture", !.service = TRUE,
                                 !.database = @ + 1,
                                 !.Request = [Host |-> hostname]]
              r == FindHostByHostname(db, hostname)
          IN  IF fault # "none"
              THEN /\ hs' = [hs EXCEPT ![g] = Answer(h, "io", 500, <<>>)]
                   /\ UNCHANGED env
              ELSE IF r.err # "nil"
              THEN /\ hs' = [hs EXCEPT ![g] = Answer(h, r.err, 404, <<>>)]
                   /\ UNCHANGED env
              ELSE /\ Left > 0
                   /\ hs' = [hs EXCEPT ![g] =
                         [h EXCEPT !.pc = "entropy", !.host = r.host,
                                   !.entropy = env.entropy,
                                   !.id = [ts |-> env.clock,
                                           rnd |-> Read(env.entropy)]]]
                   /\ env' = [env EXCEPT !.minted = @ + 1]
    /\ UNCHANGED db
    /\ UNCHANGED <<zoneVars, srv>>

\* The end of CaptureRequest: the entry is stored under its id and under
\* its host's id in one transaction, and the handler answers OK, or 500
\* when the transaction fails
CaptureStore(g) ==
    /\ hs[g].pc = "capstore"
    /\ \E fault \in {"none", "io"} :
          LET entry == [ID |-> hs[g].id, HostID |-> hs[g].host.ID,
                        Request |-> hs[g].Request, Response |-> [status |-> 0]]
              r == DbStoreHTTPLogEntry(db, entry, fault)
              h == [hs[g] EXCEPT !.database = @ + 1]
          IN  /\ db' = r.db
              /\ hs' = [hs EXCEPT ![g] =
                    IF r.err # "nil" THEN Answer(h, r.err, 500, <<>>)
                    ELSE Answer(h, "nil", 200, <<"OK">>)]
    /\ UNCHANGED env
    /\ UNCHANGED <<zoneVars, srv>>

\* The ids of the hosts in the database
StoredHostIDs == {k.v[1] : k \in {x \in DOMAIN db : x.b = hostKeyPrefix}}

\* The service's ListHTTPLogEntries for one or two host ids
ListHTTPLogEntries(g, hostIDs) ==
    /\ hs[g].pc = "idle"
    /\ LET r == DbListHTTPLogEntries(db, hostIDs, 1, <<>>)
           h == [hs[g] EXCEPT !.op = "list", !.service = TRUE, !.database = 1,
                              !.hosts = hostIDs]
       IN  hs' = [hs EXCEPT ![g] =
               IF r.err # "nil" THEN Answer(h, r.err, 500, <<>>)
               ELSE Answer(h, "nil", 200, r.entries)]
    /\ UNCHANGED <<db, env>>
    /\ UNCHANGED <<zoneVars, srv>>

\* The goroutine is done with its request
HostsResume(g) ==
    /\ hs[g].pc = "done"
    /\ hs' = [hs EXCEPT ![g] = NoHS]
    /\ UNCHANGED <<db, env>>
    /\ UNCHANGED <<zoneVars, srv>>

\* The process is stopped between two requests and started again: the
\* database is the one on disk, the global random source starts from its
\* fixed seed again, and the entropy source is seeded with the new start
\* time, which is taken to continue with values not seen before
Restart ==
    /\ env.g > 0
    /\ \A g \in Procs : hs[g].pc = "idle"
    /\ env' = NewEnv(env.clock + 1, env.entropy, env.minted)
    /\ UNCHANGED hs
    /\ UNCHANGED db
    /\ UNCHANGED <<zoneVars, srv>>

\* One goroutine serves the requests one after the other; the process may
\* be started again
HostsNext ==
    \/ \E g \in SeqProcs :
          \/ \E body \in Bodies : CreateHosts(g, body)
          \/ CreateHostsIter(g)
          \/ EntropyAdvance(g)
          \/ CreateHostsStore(g)
          \/ \E hostname \in Hostnames : CaptureRequest(g, hostname)
          \/ CaptureStore(g)
          \/ \E a \in StoredHostIDs, b \in StoredHostIDs :
                ListHTTPLogEntries(g, IF a = b THEN <<a>> ELSE <<a, b>>)
          \/ HostsResume(g)
    \/ Restart

HostsSpec == Init /\ [][HostsNext]_vars

\* The goroutines of the HTTP server serve their requests concurrently: one
\* serves requests for one host each and captures, the other one captures
RaceNext ==
    \/ CreateHosts(1, [kind |-> "json", Amount |-> 1])
    \/ CreateHostsIter(1)
    \/ CreateHostsStore(1)
    \/ \E g \in {1, NumProcs} :
          \/ EntropyAdvance(g)
          \/ \E hostname \in {Hostname(1), Hostname(2)} : CaptureRequest(g, hostname)
          \/ CaptureStore(g)
          \/ HostsResume(g)

RaceSpec == Init /\ [][RaceNext]_vars

\* ------------------------------------------------------------ the listing handler

\* ulid.EncodedSize, and the largest number of hostId parameters
EncodedSize == 26
MaxHostIDs == 20

\* A hostId parameter as far as ulid.Parse looks at it: its length, whether
\* its first character is above "7", whether all its characters are of the
\* base32 alphabet, whether its letters are in lower case, and the 16 bytes
\* the decoding table makes of it
Encode(id, lower) ==
    [size |-> EncodedSize, overflow |-> FALSE, valid |-> TRUE, lower |-> lower,
     id |-> id]

\* Parameters that are no ULID: one character short, a first character
\* above "7", and characters outside the alphabet, which decode to some
\* bytes
UndefinedID == [ts |-> 0, rnd |-> 255]
TooShort == [Encode(ZeroID, FALSE) EXCEPT !.size = EncodedSize - 1]
Overflowing == [Encode(ZeroID, FALSE) EXCEPT !.overflow = TRUE]
InvalidChars == [Encode(UndefinedID, FALSE) EXCEPT !.valid = FALSE]

\* ulid.Parse of v1.3.1: the length and the first character are checked,
\* the alphabet is not (that is ParseStrict)
Parse(raw) ==
    IF raw.size # EncodedSize THEN [id |-> ZeroID, err |-> "ErrDataSize"]
    ELSE IF raw.overflow THEN [id |-> ZeroID, err |-> "ErrOverflow"]
    ELSE [id |-> raw.id, err |-> "nil"]

\* parseHostIDs up to the map: the error, if any
parseHostIDsError(rawIDs) ==
    IF Len(rawIDs) = 0 THEN "none given"
    ELSE IF Len(rawIDs) > MaxHostIDs THEN "too many"
    ELSE IF \E i \in 1..Len(rawIDs) : Parse(rawIDs[i]).err # "nil" THEN "parse"
    ELSE "nil"

\* The keys of hostIDMap
hostIDMap(rawIDs) == {Parse(rawIDs[i]).id : i \in 1..Len(rawIDs)}

\* The orders in which a range over a map can yield its keys
Orders(S) == {o \in [1..Cardinality(S) -> S] : Range(o) = S}

\* http.ReadRequest and http.ReadResponse of the stored dumps, as
\* parseHTTPLogEntry uses them
ReadRequest(raw) == [Host |-> raw.host]
ReadResponse(raw) == [StatusCode |-> 0]

parseHTTPLogEntry(log) ==
    [ID |-> log.ID, HostID |-> log.HostID,
     Request |-> [Host |-> ReadRequest(log.RawRequest).Host, Raw |-> log.RawRequest],
     Response |-> [StatusCode |-> ReadResponse(log.RawResponse).StatusCode,
                   Raw |-> log.RawResponse]]

\* GET /api/http-logs/: parseHostIDs answers 400 for no, too many or
\* unparsable hostId parameters; otherwise the distinct ids go to the
\* service in the order the range over the map yields them, and the entries
\* come back parsed
ListHTTPLogEntriesRequest(g, rawIDs) ==
    /\ hs[g].pc = "idle"
    /\ LET h == [hs[g] EXCEPT !.op = "listreq", !.query = rawIDs]
       IN  IF parseHostIDsError(rawIDs) # "nil"
           THEN hs' = [hs EXCEPT ![g] = Answer(h, "bad request", 400, <<>>)]
           ELSE \E hostIDs \in Orders(hostIDMap(rawIDs)) :
                   LET r == DbListHTTPLogEntries(db, hostIDs, 1, <<>>)
                       c == [h EXCEPT !.service = TRUE, !.database = 1,
                                      !.hosts = hostIDs]
                   IN  hs' = [hs EXCEPT ![g] =
                           IF r.err # "nil" THEN Answer(c, r.err, 500, <<>>)
                           ELSE Answer(c, "nil", 200,
                                       [i \in 1..Len(r.entries) |->
                                           parseHTTPLogEntry(r.entries[i])])]
    /\ UNCHANGED <<db, env>>
    /\ UNCHANGED <<zoneVars, srv>>

\* The hostId parameters of the requests: the ids of the stored hosts in
\* both spellings and the three that are no ULID
RawIDs ==
    {Encode(id, lower) : id \in StoredHostIDs, lower \in BOOLEAN}
    \cup {TooShort, Overflowing, InvalidChars}

RawQueries ==
    {<<>>, [i \in 1..MaxHostIDs + 1 |-> Encode(ZeroID, FALSE)]}
    \cup {<<a>> : a \in RawIDs}
    \cup {<<a, b>> : a \in RawIDs, b \in RawIDs}

\* One goroutine creates hosts, captures requests for them and lists
ListNext ==
    \E g \in SeqProcs :
        \/ \E a \in 1..MaxAmount : CreateHosts(g, [kind |-> "json", Amount |-> a])
        \/ CreateHostsIter(g)
        \/ EntropyAdvance(g)
        \/ CreateHostsStore(g)
        \/ \E hostname \in {Hostname(1), Hostname(2)} : CaptureRequest(g, hostname)
        \/ CaptureStore(g)
        \/ \E rawIDs \in RawQueries : ListHTTPLogEntriesRequest(g, rawIDs)
        \/ HostsResume(g)

ListSpec == Init /\ [][ListNext]_vars

\* ------------------------------------------------------------ the servers

Nets(kind) == IF kind = "dns" THEN {"udp", "tcp"} ELSE {"http", "tls"}

\* Run of the DNS server or of the HTTP server, up to wg.Wait(): it starts
\* one goroutine per listener; the HTTP server starts the one of TLS only
\* when TLS is not disabled.
Run(kind, tlsDisabled) ==
    /\ srv.kind = "none"
    /\ LET nets == IF kind = "http" /\ tlsDisabled THEN {"http"} ELSE Nets(kind)
       IN  srv' = [srv EXCEPT !.kind = kind, !.nets = nets, !.run = "wait",
                              !.go = [n \in Listeners |->
                                         IF n \in nets THEN "new" ELSE "idle"]]
    /\ UNCHANGED <<zoneVars, db, hs, env>>

\* The goroutine of listener n configures its server and assigns it to the
\* field of srv
RunServer(n) ==
    /\ srv.go[n] = "new"
    /\ srv' = [srv EXCEPT !.server[n] = "new", !.go[n] = "set"]
    /\ UNCHANGED <<zoneVars, db, hs, env>>

\* The error that ListenAndServe or the serve loop of listener n returned
\* is fatal: both servers log it, the HTTP server goes on to append it to
\* Run's result, the DNS server does not.
Fatal(n) ==
    [srv EXCEPT !.failed = @ \cup {n},
                !.go[n] = IF srv.kind = "dns" THEN "done" ELSE "failed"]

\* ListenAndServe of listener n: an http.Server that was shut down before
\* returns ErrServerClosed; otherwise the listener is bound and serves, or
\* the bind fails.  A dns.Server whose ShutdownContext failed with "server
\* not started" starts all the same.
ListenAndServe(n) ==
    /\ srv.go[n] = "set"
    /\ IF srv.kind = "http" /\ srv.server[n] = "closed"
       THEN srv' = [srv EXCEPT !.go[n] = "done"]
       ELSE \E bound \in BOOLEAN :
               srv' = IF bound
                      THEN [srv EXCEPT !.server[n] = "started", !.go[n] = "serving"]
                      ELSE Fatal(n)
    /\ UNCHANGED <<zoneVars, db, hs, env>>

\* The serve loop of listener n returns: without an error (or with
\* ErrServerClosed) once the server was shut down, with a fatal error at
\* any time before.
Serve(n) ==
    /\ srv.go[n] = "serving"
    /\ srv' = IF srv.server[n] = "closed" THEN [srv EXCEPT !.go[n] = "done"]
              ELSE Fatal(n)
    /\ UNCHANGED <<zoneVars, db, hs, env>>

\* result = multierror.Append(result, err) in a goroutine of Run of the HTTP
\* server: the read of result,
RunRead(n) ==
    /\ srv.go[n] = "failed"
    /\ srv' = [srv EXCEPT !.rread[n] = srv.runResult, !.go[n] = "write"]
    /\ UNCHANGED <<zoneVars, db, hs, env>>

\* and the write
RunWrite(n) ==
    /\ srv.go[n] = "write"
    /\ srv' = [srv EXCEPT !.runResult = srv.rread[n] \cup {n}, !.go[n] = "done"]
    /\ UNCHANGED <<zoneVars, db, hs, env>>

\* wg.Wait() of Run is over: Run returns the errors of result, if any
RunReturn ==
    /\ srv.run = "wait"
    /\ \A n \in srv.nets : srv.go[n] = "done"
    /\ srv' = [srv EXCEPT !.run = "returned", !.runRet = srv.runResult]
    /\ UNCHANGED <<zoneVars, db, hs, env>>

\* Shutdown, up to wg.Wait(): it starts one goroutine per listener
Shutdown ==
    /\ srv.kind # "none"
    /\ srv.shut = "idle"
    /\ srv' = [srv EXCEPT !.shut = "wait",
                          !.sh = [n \in Listeners |->
                                     IF n \in Nets(srv.kind) THEN "new" ELSE "idle"]]
    /\ UNCHANGED <<zoneVars, db, hs, env>>

\* The errors that are not appended to the result of Shutdown
Ignored == {"nil", "skipped", "DeadlineExceeded"}

\* The goroutine of Shutdown for listener n: it returns when the field of
\* srv is nil, and calls ShutdownContext (DNS) or Shutdown (HTTP) of the
\* server otherwise.  A dns.Server that has not started returns the error
\* "server not started" and is left as it is; a started one is closed, and
\* the wait for its serve loop ends in time or with the deadline of ctx.
\* An http.Server is closed whether it has started or not; closing the
\* listener of a started one can fail.
ShutdownContext(n) ==
    /\ srv.sh[n] = "new"
    /\ \E e \in {"nil", "skipped", "DeadlineExceeded", "not started", "close"} :
          /\ e = "skipped" <=> srv.server[n] = "nil"
          /\ e = "not started" <=> (srv.kind = "dns" /\ srv.server[n] = "new")
          /\ e = "close" => (srv.kind = "http" /\ srv.server[n] = "started")
          /\ e = "DeadlineExceeded" => srv.server[n] = "started"
          /\ srv' = [srv EXCEPT
                        !.err[n] = e,
                        !.sh[n] = IF e \in Ignored THEN "done" ELSE "failed",
                        !.server[n] = IF e \in {"skipped", "not started"}
                                      THEN @ ELSE "closed"]
    /\ UNCHANGED <<zoneVars, db, hs, env>>

\* result = multierror.Append(result, err) in a goroutine of Shutdown: the
\* read of result,
ShutdownRead(n) ==
    /\ srv.sh[n] = "failed"
    /\ srv' = [srv EXCEPT !.read[n] = srv.result, !.sh[n] = "write"]
    /\ UNCHANGED <<zoneVars, db, hs, env>>

\* and the write
ShutdownWrite(n) ==
    /\ srv.sh[n] = "write"
    /\ srv' = [srv EXCEPT !.result = srv.read[n] \cup {n}, !.sh[n] = "done"]
    /\ UNCHANGED <<zoneVars, db, hs, env>>

\* wg.Wait() of Shutdown is over: Shutdown returns the errors of result, if
\* any
ShutdownReturn ==
    /\ srv.shut = "wait"
    /\ \A n \in Nets(srv.kind) : srv.sh[n] = "done"
    /\ srv' = [srv EXCEPT !.shut = "returned", !.shutRet = srv.result]
    /\ UNCHANGED <<zoneVars, db, hs, env>>

\* The servers as the command runs them: Run in a goroutine of its own,
\* Shutdown when the interrupt arrives, at any moment after.
ServerNext ==
    \/ \E kind \in {"dns", "http"} : \E tlsDisabled \in BOOLEAN : Run(kind, tlsDisabled)
    \/ \E n \in Listeners : RunServer(n)
    \/ \E n \in Listeners : ListenAndServe(n)
    \/ \E n \in Listeners : Serve(n)
    \/ \E n \in Listeners : RunRead(n)
    \/ \E n \in Listeners : RunWrite(n)
    \/ RunReturn
    \/ Shutdown
    \/ \E n \in Listeners : ShutdownContext(n)
    \/ \E n \in Listeners : ShutdownRead(n)
    \/ \E n \in Listeners : ShutdownWrite(n)
    \/ ShutdownReturn

ServerSpec == Init /\ [][ServerNext]_vars

\* ------------------------------------------------------------ claims

\* Two records conflict, in the words of the collection invariant: they have
\* the same id (an id that is set), or the same name and type.
Shares(a, b) ==
    \/ (a.id # "" /\ a.id = b.id)
    \/ (a.name = b.name /\ a.type = b.type)

Count(r, rs) == Cardinality({i \in 1..Len(rs) : rs[i] = r})

\* The elements of s at the positions in K, in order
Pick(s, K) ==
    LET f[i \in 0..Len(s)] ==
            IF i = 0 THEN <<>>
            ELSE IF i \in K THEN Append(f[i - 1], s[i]) ELSE f[i - 1]
    IN f[Len(s)]

Quiet == \A p \in Procs : pc[p] \in {"idle", "done"}

\* The call of p has returned without error and its Load told the truth.
Succeeded(p, op) ==
    /\ pc[p] = "done"
    /\ call[p].op = op
    /\ call[p].reterr = "nil"
    /\ call[p].fault = "none"

\* C1: once all calls have returned, the zonefile of a storage key holds every
\* record of every successful AppendRecords call on that key, provided the
\* calls' records do not conflict with each other.
C1_NoLostUpdate ==
    \A k \in StorageKeys :
        LET W == {p \in Procs : /\ pc[p] = "done"
                                /\ call[p].op = "append"
                                /\ call[p].reterr = "nil"
                                /\ storageKey(call[p].zone) = k}
        IN (/\ Quiet
            /\ \A p \in W : call[p].fault = "none"
            /\ \A p \in W : \A q \in W \ {p} :
                 \A a \in Range(call[p].args), b \in Range(call[q].args) :
                    ~Shares(a, b))
           => \A p \in W : Range(call[p].args) \subseteq Range(storage[k].recs)

\* C2: two calls whose zone names have the same storage key took the same
\* lock, so no two callers are between Lock and Unlock on the same zonefile.
C2_OneLockPerZonefile ==
    \A p \in Procs : \A q \in Procs \ {p} :
        (/\ call[p].acquired
         /\ call[q].acquired
         /\ storageKey(call[p].zone) = storageKey(call[q].zone))
        => /\ lockKey(call[p].zone) = lockKey(call[q].zone)
           /\ ~(pc[p] \in {"load", "store", "unlock"} /\ pc[q] \in {"load", "store", "unlock"})

\* C3: a zonefile never holds two records with the same id or with the same
\* name and type.
C3_CollectionInvariant ==
    \A k \in StorageKeys :
        \A i, j \in 1..Len(storage[k].recs) :
            i # j => ~Shares(storage[k].recs[i], storage[k].recs[j])

\* C4: a successful AppendRecords creates exactly the candidates that share
\* no id and no (name, type) with a record of the zonefile or with a candidate
\* created before them, stores the loaded records followed by the created
\* ones, and returns the created ones in candidate order.
C4_AppendCreatesNonConflicting ==
    \A p \in Procs :
        Succeeded(p, "append") =>
            LET old == call[p].loaded.recs
                new == call[p].args
                stored == storage[storageKey(call[p].zone)]
            IN \E K \in SUBSET (1..Len(new)) :
                 /\ \A i \in 1..Len(new) :
                       i \in K <=>
                          /\ \A j \in 1..Len(old) : ~Shares(new[i], old[j])
                          /\ \A j \in K : j < i => ~Shares(new[i], new[j])
                 /\ call[p].ret.elems = Pick(new, K)
                 /\ stored.kind \in {"null", "array"}
                 /\ stored.recs = old \o Pick(new, K)

\* A two-candidate AppendRecords that skipped one candidate for its id alone
\* and created the other.
C4_Witness ==
    \E p \in Procs :
        /\ Succeeded(p, "append")
        /\ Len(call[p].args) = 2
        /\ Len(call[p].ret.elems) = 1
        /\ \E i \in 1..2, j \in 1..Len(call[p].loaded.recs) :
              /\ call[p].args[i].id # ""
              /\ call[p].args[i].id = call[p].loaded.recs[j].id
              /\ call[p].args[i].name # call[p].loaded.recs[j].name

\* C5: an AppendRecords call repeated with the same zone and records
\* creates nothing and leaves the zonefile as the first call left it; a single
\* record appended twice to a zone without records is there once.
C5_AppendIdempotent ==
    \A p \in Procs :
        (Succeeded(p, "append") /\ call[p].again) =>
            /\ call[p].ret.elems = <<>>
            /\ storage[storageKey(call[p].zone)] = call[p].loaded
            /\ (Len(call[p].args) = 1 /\ call[p].first.recs = <<>>)
                  => storage[storageKey(call[p].zone)].recs = call[p].args

\* The second of two equal single-record appends to a zone that had no
\* records has returned.
C5_Witness ==
    \E p \in Procs :
        /\ Succeeded(p, "append")
        /\ call[p].again
        /\ Len(call[p].args) = 1
        /\ call[p].first.recs = <<>>
        /\ Len(storage[storageKey(call[p].zone)].recs) = 1

\* C6: after a successful DeleteRecords with at least one target, every
\* record of the zonefile that matches no target is in the zonefile exactly
\* once, as it was.
C6_DeleteKeepsUnrelated ==
    \A p \in Procs :
        (Succeeded(p, "delete") /\ call[p].args # <<>>) =>
            \A r \in Range(call[p].loaded.recs) :
                (/\ Count(r, call[p].loaded.recs) = 1
                 /\ \A t \in Range(call[p].args) : ~Shares(t, r))
                => Count(r, storage[storageKey(call[p].zone)].recs) = 1

\* C7: after a successful DeleteRecords no record of the zonefile matches a
\* target (every record matching a target by id or by name and type is gone).
C7_DeleteRemovesMatching ==
    \A p \in Procs :
        Succeeded(p, "delete") =>
            \A r \in Range(storage[storageKey(call[p].zone)].recs) :
                \A t \in Range(call[p].args) : ~Shares(t, r)

\* C8: a GetRecords whose Load told the truth returns no error and exactly
\* the records of the zonefile (none when there is no zonefile), and the
\* zonefile is as it was loaded.
C8_GetReturnsStored ==
    \A p \in Procs :
        (pc[p] = "done" /\ call[p].op = "get" /\ call[p].acquired /\ call[p].fault = "none") =>
            /\ call[p].reterr = "nil"
            /\ call[p].loaded.kind = "none" => call[p].ret.elems = <<>>
            /\ call[p].ret.elems = storage[storageKey(call[p].zone)].recs
            /\ storage[storageKey(call[p].zone)] = call[p].loaded
            /\ call[p].stores = 0

\* A GetRecords that returned two stored records.
C8_Witness ==
    \E p \in Procs :
        /\ Succeeded(p, "get")
        /\ call[p].loaded.kind = "array"
        /\ Len(call[p].ret.elems) = 2

Begins(p) ==
    /\ pc[p] \in {"idle", "done"}
    /\ call'[p] # call[p]
    /\ call'[p].op # "none"

\* C10: a call whose Lock fails returns the lock error in that very step,
\* with no Load, Store or Unlock and with storage and locks untouched, and
\* does nothing after it.
C10_LockFailureAborts ==
    [][\A p \in Procs :
         /\ (Begins(p) /\ ~call'[p].acquired) =>
               /\ pc'[p] = "done"
               /\ call'[p].reterr = "lock"
               /\ call'[p].ret = NilSlice
               /\ call'[p].loads = 0 /\ call'[p].stores = 0 /\ call'[p].unlocks = 0
               /\ storage' = storage
               /\ locks' = locks
         /\ (call[p].op # "none" /\ ~call[p].acquired /\ ~Begins(p)) =>
               /\ storage' = storage
               /\ locks' = locks
               /\ call'[p] = call[p] \/ call'[p].op = "none"]_vars

\* A DeleteRecords call has returned the lock error.
C10_Witness ==
    \E p \in Procs :
        /\ pc[p] = "done"
        /\ call[p].op = "delete"
        /\ ~call[p].acquired
        /\ call[p].reterr = "lock"

\* C11: an AppendRecords whose Load failed with an error other than not-exist
\* never reaches Store, creates nothing and returns the load error; one whose
\* Load reported not-exist goes on with no records.
C11_AppendLoadErrorFatal ==
    \A p \in Procs :
        (call[p].op = "append" /\ call[p].loads = 1) =>
            /\ call[p].lerr = "io" =>
                  /\ pc[p] # "store"
                  /\ call[p].stores = 0
                  /\ pc[p] = "done" => (call[p].reterr = "load" /\ call[p].ret.elems = <<>>)
            /\ (call[p].lerr = "notexist" /\ pc[p] = "store") =>
                  call[p].newfile.recs = call[p].out.elems

\* C12: a DeleteRecords whose Load reported not-exist returns no error and no
\* deleted records (it does not panic); one whose Load failed otherwise
\* returns the load error and has not called Store.
C12_DeleteAbsorbsNotExist ==
    \A p \in Procs :
        (pc[p] = "done" /\ call[p].op = "delete" /\ call[p].loads = 1) =>
            /\ call[p].lerr = "notexist" =>
                  (call[p].reterr \in {"nil", "store"} /\ call[p].ret.elems = <<>>)
            /\ call[p].lerr = "io" =>
                  (call[p].reterr = "load" /\ call[p].stores = 0)

\* C13: a GetRecords whose Load failed with an error other than not-exist
\* returns the load error, not an empty record set without error.
C13_GetLoadErrorReturned ==
    \A p \in Procs :
        (pc[p] = "done" /\ call[p].op = "get" /\ call[p].lerr = "io") =>
            call[p].reterr = "load"

\* C14: two calls on zones with different canonical names took different
\* locks and work on different zonefiles, so neither waits for the other's
\* lock and neither loads or stores the other's zonefile.
C14_DifferentZonesIndependent ==
    \A p \in Procs : \A q \in Procs \ {p} :
        (/\ call[p].acquired
         /\ call[q].acquired
         /\ CanonicalName(call[p].zone) # CanonicalName(call[q].zone))
        => /\ lockKey(call[p].zone) # lockKey(call[q].zone)
           /\ storageKey(call[p].zone) # storageKey(call[q].zone)

\* The query a returned ServeDNS handled had a question.
Answered(p) == serve[p].phase = "returned" /\ Len(serve[p].r.question) >= 1

QName(p) == serve[p].r.question[1].name

QType(p) == serve[p].r.question[1].qtype

\* The name is the configured hostname "b" or a sub-domain of it: its labels
\* end with the labels of the hostname, whatever the case of the letters.
InZone(name) ==
    LET base == Labels(ToLower(Fqdn(ZoneB)))
        n == Labels(ToLower(Fqdn(name)))
    IN /\ Len(n) >= Len(base)
       /\ SubSeq(n, Len(n) - Len(base) + 1, Len(n)) = base

\* The GetRecords call of the record branch took the lock, loaded the
\* zonefile as it is and returned no error.
GotRecords(p) ==
    /\ serve[p].got.called
    /\ serve[p].got.reterr = "nil"
    /\ serve[p].got.fault = "none"

\* The zonefile of the name
StoredRecs(name) == storage[storageKey(name)].recs

IsTXT(rec) == rec.type = "TXT"

\* C15: a query without a question gets no reply; a query with a question
\* gets exactly one WriteMsg call by the time ServeDNS returns, on every path
\* and also when that call fails, and none before.
C15_OneReplyPerQuery ==
    \A p \in Procs :
        /\ serve[p].phase = "get" => serve[p].writes = 0
        /\ serve[p].phase = "returned" =>
              /\ Len(serve[p].r.question) = 0 => serve[p].writes = 0
              /\ Len(serve[p].r.question) >= 1 =>
                    (serve[p].writes = 1 /\ serve[p].reply.response)

\* A query whose GetRecords failed got its one reply, and writing it failed.
C15_Witness ==
    \E p \in Procs :
        /\ Answered(p)
        /\ serve[p].logged = "get"
        /\ serve[p].writeErr
        /\ serve[p].writes = 1

\* C16: a query for a name outside the zone gets an empty reply that is not
\* authoritative, whatever its type, and GetRecords is never called for it.
C16_OutOfZoneEmpty ==
    \A p \in Procs :
        /\ (serve[p].phase = "get" \/ serve[p].got.called) => InZone(QName(p))
        /\ (Answered(p) /\ ~InZone(QName(p))) =>
              /\ serve[p].reply.response
              /\ ~serve[p].reply.authoritative
              /\ serve[p].reply.answer = <<>>
              /\ call[p].op = "none"

\* A TXT query for "ab." has been answered while the zone of "b." holds
\* records.
C16_Witness ==
    \E p \in Procs :
        /\ Answered(p)
        /\ QName(p) = NameAB
        /\ QType(p) = "TXT"
        /\ StoredRecs(ZoneBDot) # <<>>

\* C17: a SOA or NS query for a name in the zone gets an authoritative reply
\* with one record of the asked type, the SOA naming ns1.b. and
\* hostmaster.b., the NS naming ns1.b., and GetRecords is not called.
C17_SoaNsSynthesized ==
    \A p \in Procs :
        (Answered(p) /\ InZone(QName(p)) /\ QType(p) \in {"SOA", "NS"}) =>
            LET answer == serve[p].reply.answer
            IN /\ serve[p].reply.authoritative
               /\ Len(answer) = 1
               /\ answer[1].hdr.rrtype = QType(p)
               /\ answer[1].hdr.name = QName(p)
               /\ answer[1].ns = Ns1 \o <<".">> \o ZoneB \o <<".">>
               /\ QType(p) = "SOA" => answer[1].mbox = Hostmaster \o <<".">> \o ZoneB \o <<".">>
               /\ ~serve[p].got.called
               /\ call[p].op = "none"

\* An NS query for a sub-domain has been answered while the zone of "b."
\* holds two records.
C17_Witness ==
    \E p \in Procs :
        /\ Answered(p)
        /\ QName(p) = NameXB
        /\ QType(p) = "NS"
        /\ Len(StoredRecs(ZoneBDot)) = 2

\* C18: a TXT query for a zone, answered from the zonefile as it is, has in
\* its authoritative answer a TXT record with TTL 3600 and the value of every
\* TXT record that was appended to the zone.
C18_TxtQueryReturnsValue ==
    \A p \in Procs :
        (Answered(p) /\ QType(p) = "TXT" /\ GotRecords(p)) =>
            \A i \in 1..Len(StoredRecs(QName(p))) :
                IsTXT(StoredRecs(QName(p))[i]) =>
                    /\ serve[p].reply.authoritative
                    /\ \E j \in 1..Len(serve[p].reply.answer) :
                          /\ serve[p].reply.answer[j].hdr.rrtype = "TXT"
                          /\ serve[p].reply.answer[j].hdr.ttl = 3600
                          /\ serve[p].reply.answer[j].txt = <<StoredRecs(QName(p))[i].value>>

\* C19: a query for a name in the zone of a type other than SOA, NS and TXT
\* gets an authoritative reply without answers, whatever the zonefile holds.
C19_OtherTypesEmpty ==
    \A p \in Procs :
        (Answered(p) /\ InZone(QName(p)) /\ QType(p) \notin {"SOA", "NS", "TXT"}) =>
            /\ serve[p].reply.authoritative
            /\ serve[p].reply.answer = <<>>

\* C20: the answer of the record branch, made from the zonefile as it is,
\* has one TXT record per TXT record of the zonefile, in their order,
\* whatever records of other types the zonefile holds.
C20_OneAnswerPerTxtRecord ==
    \A p \in Procs :
        (Answered(p) /\ GotRecords(p)) =>
            LET txts == SelectSeq(StoredRecs(QName(p)), IsTXT)
                answer == serve[p].reply.answer
            IN /\ Len(answer) = Len(txts)
               /\ \A i \in 1..Len(txts) :
                     /\ answer[i].hdr.rrtype = "TXT"
                     /\ answer[i].txt = <<txts[i].value>>

\* C21: when the GetRecords call of an in-zone query fails (at Lock or at
\* decoding) or its Load fails, the reply is authoritative, has no answer and
\* carries no error code.
C21_NoErrorCodeOnFailure ==
    \A p \in Procs :
        (/\ Answered(p)
         /\ serve[p].got.called
         /\ (serve[p].got.reterr # "nil" \/ serve[p].got.fault = "io")) =>
            /\ InZone(QName(p))
            /\ serve[p].reply.response
            /\ serve[p].reply.authoritative
            /\ serve[p].reply.answer = <<>>
            /\ serve[p].reply.rcode = "NOERROR"

\* A TXT query has been answered after GetRecords failed to decode the
\* zonefile.
C21_Witness ==
    \E p \in Procs :
        /\ Answered(p)
        /\ QType(p) = "TXT"
        /\ serve[p].got.reterr = "decode"
        /\ serve[p].logged = "get"

\* The hosts and the capture entries the database holds
StoredHosts == {GobDecodeHost(db[k]) : k \in {x \in DOMAIN db : x.b = hostKeyPrefix}}

StoredEntries ==
    {GobDecodeEntry(db[k]) : k \in {x \in DOMAIN db : x.b = httpLogKeyPrefix}}

\* The CreateHosts request of g was answered with the hosts
Created(g) == hs[g].pc = "done" /\ hs[g].op = "create" /\ hs[g].status = 201

\* C22: a CreateHosts call that returns hosts returns as many as were asked
\* for, with pairwise distinct ids and hostnames, and FindHostByID and
\* FindHostByHostname then return each of them.
C22_CreatedHostsRetrievable ==
    \A g \in Procs :
        Created(g) =>
            LET out == hs[g].data
            IN  /\ Len(out) = hs[g].Amount
                /\ \A i \in 1..Len(out) : \A j \in 1..Len(out) :
                      i # j => /\ out[i].ID # out[j].ID
                               /\ out[i].Hostname # out[j].Hostname
                /\ \A i \in 1..Len(out) :
                      /\ FindHostByID(db, out[i].ID) = [host |-> out[i], err |-> "nil"]
                      /\ FindHostByHostname(db, out[i].Hostname) =
                             [host |-> out[i], err |-> "nil"]

\* C23: no two hosts in the store have the same hostname, whichever
\* CreateHosts calls stored them and in whichever run of the process.
C23_HostnameMapsToOneID ==
    \A a \in StoredHosts : \A b \in StoredHosts :
        a.Hostname = b.Hostname => a.ID = b.ID

\* ulid.MustNew has returned the id of g's call and the record is not yet
\* stored
Minted(g) == hs[g].pc \in {"store", "capstore"}

\* C24: the ids that calls running at the same time have minted are
\* pairwise distinct.
C24_ConcurrentIDsDistinct ==
    \A g \in Procs : \A o \in Procs \ {g} :
        (Minted(g) /\ Minted(o)) => hs[g].id # hs[o].id

\* C25: a create-hosts request with an amount outside 1..50 is answered with
\* 400 in the handler: the database is as it was, and neither the hosts
\* service nor the database has been called.
C25_InvalidAmountRejected ==
    [][\A g \in Procs :
          (/\ hs[g].pc = "idle"
           /\ hs'[g].op = "create"
           /\ hs'[g].Amount \notin 1..MaxValidAmount) =>
              /\ db' = db
              /\ hs'[g].pc = "done"
              /\ hs'[g].status = 400
              /\ ~hs'[g].service
              /\ hs'[g].database = 0]_vars

C25_Witness ==
    \E g \in Procs :
        /\ hs[g].pc = "done" /\ hs[g].op = "create"
        /\ hs[g].Amount = MaxValidAmount + 1
        /\ hs[g].status = 400
        /\ StoredHosts # {}

\* No host in the store has the hostname
NoStoredHost(hostname) == \A h \in StoredHosts : h.Hostname # hostname

\* C26: a capture request whose Host no stored host has, and whose lookup
\* itself does not fail, ends with ErrHostNotFound: the database is as it
\* was and the answer is 404, not the OK acknowledgement.
C26_UnknownHostNotCaptured ==
    [][\A g \in Procs :
          (/\ hs[g].pc = "idle"
           /\ hs'[g].op = "capture"
           /\ hs'[g].err # "io"
           /\ NoStoredHost(hs'[g].Request.Host)) =>
              /\ db' = db
              /\ hs'[g].pc = "done"
              /\ hs'[g].err = "ErrHostNotFound"
              /\ hs'[g].status = 404
              /\ hs'[g].data # <<"OK">>]_vars

C26_Witness ==
    \E g \in Procs :
        /\ hs[g].pc = "done" /\ hs[g].op = "capture"
        /\ hs[g].status = 404
        /\ StoredHosts # {}
        /\ NoStoredHost(hs[g].Request.Host)

\* C27: every capture entry in the store has the id of a stored host that
\* CreateHosts generated (one with an id and a hostname), and that host's
\* hostname is the Host of the captured request.
C27_CaptureHasCreatedHost ==
    \A e \in StoredEntries :
        \E h \in StoredHosts :
            /\ h.ID = e.HostID
            /\ h.ID # ZeroID
            /\ h.Hostname # <<>>
            /\ h.Hostname = e.RawRequest.host

\* C28: in every state of the database, which is every state a read
\* transaction can see, a host's primary key is there exactly when its
\* hostname-index key is, and a capture entry's primary key exactly when its
\* host-id index key is.
C28_RecordAndIndexTogether ==
    \A k \in DOMAIN db :
        /\ k.b = hostKeyPrefix =>
              entryKey(hostKeyPrefix, hostHostnameIndex,
                       <<GobDecodeHost(db[k]).Hostname, k.v[1]>>) \in DOMAIN db
        /\ k.b = hostHostnameIndex =>
              entryKey(hostKeyPrefix, 0, <<k.v[2]>>) \in DOMAIN db
        /\ k.b = httpLogKeyPrefix =>
              entryKey(httpLogKeyPrefix, httpLogHostIDIndex,
                       <<GobDecodeEntry(db[k]).HostID, k.v[1]>>) \in DOMAIN db
        /\ k.b = httpLogHostIDIndex =>
              entryKey(httpLogKeyPrefix, 0, <<k.v[2]>>) \in DOMAIN db

C28_Witness ==
    /\ StoredHosts # {}
    /\ StoredEntries # {}
    /\ hs[1].pc = "store"
    /\ hs[NumProcs].pc = "capstore"

\* C29: StoreHosts refuses an empty list of hosts; given hosts, it either
\* fails and leaves the database as it was, or the primary record and the
\* hostname-index entry of every given host are in the database.
C29_StoreHostsAllOrNothing ==
    [][\A g \in Procs :
          /\ StoreHosts(db, <<>>, "none").err # "nil"
          /\ StoreHosts(db, <<>>, "none").db = db
          /\ (hs[g].pc = "store" /\ hs'[g].pc # "store") =>
                \/ /\ hs'[g].err = "commit"
                   /\ db' = db
                \/ /\ hs'[g].err = "nil"
                   /\ \A i \in 1..Len(hs[g].hosts) :
                         LET host == hs[g].hosts[i]
                             key == entryKey(hostKeyPrefix, 0, <<host.ID>>)
                             index == entryKey(hostKeyPrefix, hostHostnameIndex,
                                               <<host.Hostname, host.ID>>)
                         IN  /\ key \in DOMAIN db'
                             /\ GobDecodeHost(db'[key]) = host
                             /\ index \in DOMAIN db']_vars

C29_Witness ==
    \E g \in Procs :
        /\ hs[g].pc = "done" /\ hs[g].op = "create"
        /\ hs[g].err = "commit"
        /\ hs[g].database = 2
        /\ Cardinality(StoredHosts) = 2

\* C30: for every host id, the listing holds each stored capture entry with
\* that host id once, and no other entry.
C30_ListingPerHost ==
    \A id \in StoredHostIDs :
        LET r == DbListHTTPLogEntries(db, <<id>>, 1, <<>>)
        IN  /\ r.err = "nil"
            /\ Range(r.entries) = {e \in StoredEntries : e.HostID = id}
            /\ Len(r.entries) = Cardinality(Range(r.entries))

\* C36: the hosts of the iterations before a failed one are stored and
\* retrievable, and the store holds no host record but those of hosts that
\* an iteration has generated.
C36_BatchSoFarOnly ==
    /\ \A g \in Procs :
          (hs[g].op = "create" /\ hs[g].pc = "done" /\ hs[g].err = "commit") =>
              \A i \in 1..(hs[g].i - 1) :
                  FindHostByID(db, hs[g].hosts[i].ID) =
                      [host |-> hs[g].hosts[i], err |-> "nil"]
    /\ \A g \in Procs :
          (hs[g].op = "create" /\ hs[g].pc = "iter") =>
              \A h \in StoredHosts :
                  \A j \in hs[g].i..hs[g].Amount : h # hs[g].hosts[j]

\* C37: every host record and every hostname-index key of the store is that
\* of a host with an id and a hostname; looking the empty hostname or the
\* zero id up finds nothing, and no capture entry has the empty Host.
C37_NoPhantomHost ==
    /\ \A k \in DOMAIN db :
          /\ k.b = hostKeyPrefix =>
                (k.v[1] # ZeroID /\ GobDecodeHost(db[k]).Hostname # <<>>)
          /\ k.b = hostHostnameIndex => (k.v[1] # <<>> /\ k.v[2] # ZeroID)
    /\ FindHostByHostname(db, <<>>).err = "ErrHostNotFound"
    /\ FindHostByID(db, ZeroID).err = "ErrHostNotFound"
    /\ \A e \in StoredEntries : e.RawRequest.host # <<>>

\* C38: a DeleteRecords without targets that returns no error leaves the
\* records of the zonefile as it loaded them and returns no deleted record.
C38_DeleteNothingIsNoOp ==
    \A p \in Procs :
        (Succeeded(p, "delete") /\ call[p].args = <<>>) =>
            /\ storage[storageKey(call[p].zone)].recs = call[p].loaded.recs
            /\ call[p].ret.elems = <<>>

\* s is the beginning of t
IsPrefix(s, t) == Len(s) <= Len(t) /\ SubSeq(t, 1, Len(s)) = s

\* C39: an AppendRecords or DeleteRecords that returns an error returns no
\* records and has written nothing, and the Store of an AppendRecords keeps
\* the records the zonefile held, in their order, before the new ones.
C39_FailureLeavesZone ==
    [][\A p \in Procs :
          /\ (pc'[p] = "done" /\ call'[p].op \in {"append", "delete"}
              /\ call'[p].reterr # "nil") =>
                 /\ call'[p].ret = NilSlice
                 /\ (call'[p].stores = 0 \/ call'[p].reterr = "store")
          /\ (pc[p] = "store" /\ call'[p].err = "store") => storage' = storage
          /\ (pc[p] = "store" /\ call[p].op = "append") =>
                IsPrefix(storage[storageKey(call[p].zone)].recs,
                         storage'[storageKey(call[p].zone)].recs)]_vars

\* The listing request of g was answered with entries
Listed(g) == hs[g].pc = "done" /\ hs[g].op = "listreq" /\ hs[g].status = 200

\* The distinct ids of the hostId parameters in the order the caller gave
\* them
CallerOrder(rawIDs) ==
    LET f[i \in 0..Len(rawIDs)] ==
            IF i = 0 THEN <<>>
            ELSE IF Parse(rawIDs[i]).id \in Range(f[i - 1]) THEN f[i - 1]
            ELSE Append(f[i - 1], Parse(rawIDs[i]).id)
    IN f[Len(rawIDs)]

Position(x, seq) == CHOOSE k \in 1..Len(seq) : seq[k] = x

\* The entry with id a was stored before the one with id b: in an earlier
\* run of the process, or in the same run from an earlier state of the
\* entropy source (the state that Read turns into the id's entropy)
StoredBefore(a, b) ==
    LET state(v) == IF v % 2 = 0 THEN v - 2 ELSE v
    IN  a.ts < b.ts \/ (a.ts = b.ts /\ state(a.rnd) < state(b.rnd))

\* C31: the entries of a listing come host id by host id in the order of
\* the request's host ids, and those of one host id in the order in which
\* they were stored.
C31_ListingOrder ==
    \A g \in Procs :
        Listed(g) =>
            LET data == hs[g].data
                order == CallerOrder(hs[g].query)
            IN  \A i \in 1..Len(data) : \A j \in 1..Len(data) :
                    i < j =>
                        /\ Position(data[i].HostID, order) <= Position(data[j].HostID, order)
                        /\ data[i].HostID = data[j].HostID =>
                              StoredBefore(data[i].ID, data[j].ID)

\* C32: a capture that is stored adds one entry to the listing of every
\* host that has the request's hostname, with that host's id and the dumps
\* of the request and the response, from which the request's Host reads
\* back; and no step changes or removes a stored entry.
C32_CaptureRoundTrip ==
    [][/\ \A k \in DOMAIN db :
             k.b = httpLogKeyPrefix => (k \in DOMAIN db' /\ db'[k] = db[k])
       /\ \A g \in Procs :
             (hs[g].pc = "capstore" /\ hs'[g].status = 200) =>
                 \A h \in StoredHosts :
                     h.Hostname = hs[g].Request.Host =>
                         LET before == ListHostID(db, h.ID).entries
                             after == ListHostID(db', h.ID).entries
                         IN  /\ Len(after) = Len(before) + 1
                             /\ \E e \in Range(after) \ Range(before) :
                                   /\ e.ID = hs[g].id
                                   /\ e.HostID = h.ID
                                   /\ e.RawRequest = DumpRequest(hs[g].Request)
                                   /\ ReadRequest(e.RawRequest).Host = hs[g].Request.Host]_vars

\* The parameter is the encoding of a ULID
WellFormed(raw) == raw.size = EncodedSize /\ ~raw.overflow /\ raw.valid

\* C33: a listing request with no hostId parameter, with more than 20, or
\* with one that is no ULID is answered with 400 and reaches neither the
\* service nor the database; any other reaches the service with each
\* distinct id once.
C33_HostIDsValidated ==
    \A g \in Procs :
        (hs[g].pc = "done" /\ hs[g].op = "listreq") =>
            LET q == hs[g].query
            IN  IF \/ Len(q) = 0
                   \/ Len(q) > MaxHostIDs
                   \/ \E i \in 1..Len(q) : ~WellFormed(q[i])
                THEN hs[g].status = 400 /\ ~hs[g].service /\ hs[g].database = 0
                ELSE /\ hs[g].service
                     /\ Range(hs[g].hosts) = {q[i].id : i \in 1..Len(q)}
                     /\ Len(hs[g].hosts) = Cardinality(Range(hs[g].hosts))

\* C34: Shutdown returns only after the goroutines of both listeners are
\* done, and the error it returns holds the error of every listener whose
\* shutdown failed with anything but the deadline of the context, and no
\* other: with a deadline alone it returns nil.
C34_ShutdownAggregates ==
    srv.shut = "returned" =>
        \A n \in Nets(srv.kind) :
            /\ srv.sh[n] = "done"
            /\ n \in srv.shutRet <=> srv.err[n] \notin Ignored

\* C35: Run of the DNS server returns only after both listeners have
\* stopped, and the error it returns holds the error of every listener that
\* failed.
C35_RunReportsListeners ==
    (srv.kind = "dns" /\ srv.run = "returned") =>
        /\ \A n \in srv.nets : srv.go[n] = "done"
        /\ srv.failed \subseteq srv.runRet

\* C40: once Shutdown has returned nil, no listener of the server is
\* serving, and Shutdown has skipped no listener that Run started.
C40_ShutdownEffective ==
    (srv.shut = "returned" /\ srv.shutRet = {}) =>
        \A n \in srv.nets :
            /\ ~(srv.go[n] = "serving" /\ srv.server[n] = "started")
            /\ srv.err[n] = "skipped" => srv.server[n] # "started"

====
